---- MODULE Spec2Model ----
(***************************************************************************)
(* Serial connection manager and stream pipeline of static/js/eeprom.js.   *)
(*                                                                         *)
(* The module-level variables of eeprom.js are the variables of the same   *)
(* name.  An async function is a process whose position (pc) is the await  *)
(* it is suspended at; every action is the synchronous code that runs      *)
(* between two awaits, which JavaScript executes atomically.  The browser  *)
(* side of the Web Serial and Streams APIs (whether a promise fulfils or   *)
(* rejects) is chosen nondeterministically.  A timer that is awaited       *)
(* directly after another await, with no code in between, is folded into   *)
(* that await.                                                             *)
(*                                                                         *)
(* Text is a sequence of one-character strings.  LOG_LINES holds the lines *)
(* that readLoop assembles from the device's output; the status messages   *)
(* that the connection functions pass to logLine are left out, and where   *)
(* performCLIHandshake examines the transcript either outcome may occur.   *)
(***************************************************************************)
EXTENDS Integers, Sequences, FiniteSets, TLC

\* ---------------------------------------------------------------- bounds
MaxCalls == 3        \* connectToPort invocations
MaxText  == 3        \* characters of device output in an enumerated chunk stream
MaxRuns  == 1        \* starts of the scan, and of the diagnostic run
MaxCmds  == 3        \* sendCommand invocations followed in SpecCmd
MaxBusy  == 9        \* commands of a scan within which the device answers in SpecScan
MaxLines == 4        \* lines of an enumerated transcript
MaxTicks == 5        \* poll intervals that stand for 20 of them (1000 ms, 2000 ms)

\* ------------------------------------------------------------- constants
NULL == 0

Ports    == {1, 2}         \* the serial ports the browser offers
Sessions == 1..MaxCalls     \* every invocation opens at most one transport
Streams  == 1..MaxCalls     \* and sets up at most one pair of streams
Callers  == {"A", "B"}
Runs     == {"scan", "diag"}  \* readBoardConfiguration and diagnoseBoardEEPROMs

\* A run that is not in progress.  pc: idle, sc_w (in sendCommand, awaiting the
\* write), sc_ret (sendCommand has returned without writing), wait (in a wait
\* for the device), timer, parse.  site: the call or wait of the run's own code
\* that it is at.  ch: the index of the channel being visited; k: the index of
\* the initialisation command; ok: what sendCommand returned.  Of a wait: t is
\* the time since it started and due the time of its next poll, both in poll
\* intervals; seen is the transcript length at its start and at each poll so far.
IdleRun == [pc |-> "idle", site |-> "none", ch |-> 0, k |-> 0, awaited |-> NULL,
            cmd |-> <<>>, ok |-> FALSE, before |-> 0, last |-> 0, stable |-> 0, runs |-> 0,
            t |-> 0, due |-> 0, seen |-> <<>>]

VARIABLES
    \* module variables of eeprom.js
    LOG_LINES, port, reader, writer, textDecoder, textEncoder,
    readableStreamClosed, writableStreamClosed, isConnecting, lineBuffer,
    \* the browser: serial ports and the streams made by setupSerialStreams
    portSess,   \* port -> the transport (session) it has open, or NULL when closed
    nSess,      \* number of transports opened so far
    attachR,    \* stream pair -> the transport its reader is piped from, or NULL
    attachW,    \* stream pair -> the transport its writer is piped to, or NULL
    rst,        \* stream pair -> state of its readable side
    wst,        \* stream pair -> state of its writable side
    nStreams,   \* number of stream pairs made so far
    loops,      \* stream pair -> number of readLoop invocations awaiting a read on it
    \* the connectToPort invocations
    pc, selectedPort, awaited, ncalls, dpTrace, oldSess, mySess,
    \* timers and observations
    settleQ,    \* the callers inside the 2 s settle delay, oldest first
    earlyWrites,\* the transports written to before their settle delay elapsed
    \* the scan and the diagnostic run, and their sendCommand invocations
    run,        \* run -> where it is suspended and the locals it holds
    calls,      \* the sendCommand invocations so far: who called, the command, and
                \* the writer it was written to (NULL when nothing was written)
    returned,   \* run -> what its latest sendCommand that has returned gave
    \* the device
    input,      \* the chunks reader.read() has still to yield, in order
    received,   \* the chunks readLoop has processed so far, in order
    fresh       \* the text processed since performCLIHandshake last emptied lineBuffer

connVars == <<port, isConnecting>>
strmVars == <<reader, writer, textDecoder, textEncoder,
              readableStreamClosed, writableStreamClosed>>
pipeVars == <<LOG_LINES, lineBuffer, input, received, fresh>>
envVars  == <<portSess, nSess, attachR, attachW, rst, wst, nStreams, loops>>
callVars == <<pc, selectedPort, awaited, ncalls, dpTrace, oldSess, mySess>>
obsVars  == <<settleQ, earlyWrites>>
scVars   == <<run, calls, returned>>
vars == <<connVars, strmVars, pipeVars, envVars, callVars, obsVars, scVars>>

\* ---------------------------------------------------------------- helpers
\* The transport a stream pair writes to: it is piped to it, its writable side
\* is open and some port still has that transport open.
SessOpen(s) == s # NULL /\ \E p \in Ports : portSess[p] = s
WriterLive(w) == w # NULL /\ wst[w] = "open" /\ SessOpen(attachW[w])
ReaderLive(r) == r # NULL /\ rst[r] = "live" /\ SessOpen(attachR[r])

\* ---------------------------------------------------------- line assembly
CR == "\r"
LF == "\n"

\* The characters String.prototype.trim removes, as far as they occur here.
WhiteSpace == {" ", "\t", CR, LF}

\* s.split(/\r?\n/) (340): the pieces of s between its line terminators; a
\* carriage return belongs to a terminator only when a line feed follows it.
RECURSIVE SplitFrom(_, _, _)
SplitFrom(s, i, pieces) ==
    LET ends == {j \in i..Len(s) : s[j] = LF}
    IN  IF ends = {} THEN Append(pieces, SubSeq(s, i, Len(s)))
        ELSE LET j == CHOOSE j \in ends : \A k \in ends : j <= k
                 e == IF j > i /\ s[j - 1] = CR THEN j - 2 ELSE j - 1
             IN  SplitFrom(s, j + 1, Append(pieces, SubSeq(s, i, e)))

split(s) == SplitFrom(s, 1, <<>>)

\* s.trim() (344, 345).
RECURSIVE trimStart(_)
trimStart(s) ==
    IF s # <<>> /\ Head(s) \in WhiteSpace THEN trimStart(Tail(s)) ELSE s

RECURSIVE trimEnd(_)
trimEnd(s) ==
    IF s # <<>> /\ s[Len(s)] \in WhiteSpace THEN trimEnd(SubSeq(s, 1, Len(s) - 1)) ELSE s

\* C8 mutant: only the end of the line is trimmed.
trim_EndOnly(s) == trimEnd(s)

trim(s) == trimEnd(trimStart(s))

\* C10 mutant: the message is put in front of the transcript.
logLine_Unshift(log, message) == <<message>> \o log

\* logLine (1346-1358), as far as LOG_LINES is concerned.
logLine(log, message) == Append(log, message)

\* C9 mutant: the loop runs to lines.length, so the last piece is logged too.
RECURSIVE LogCompleteLines_All(_, _, _)
LogCompleteLines_All(log, lines, i) ==
    IF i > Len(lines) THEN log
    ELSE LogCompleteLines_All(IF trim(lines[i]) # <<>> THEN logLine(log, trim(lines[i])) ELSE log,
                              lines, i + 1)

\* The for loop of readLoop (343-347) from index i on (1-based): every piece but
\* the last is logged, trimmed, unless its trimmed text is empty.
RECURSIVE LogCompleteLines(_, _, _)
LogCompleteLines(log, lines, i) ==
    IF i > Len(lines) - 1 THEN log
    ELSE LogCompleteLines(IF trim(lines[i]) # <<>> THEN logLine(log, trim(lines[i])) ELSE log,
                          lines, i + 1)

\* ------------------------------------------------------------------ text
\* A string literal as text: the sequence of its characters.
Str(s) == [i \in 1..Len(s) |-> SubSeq(s, i, i)]

\* `${n}` for a number n.
Num(n) == Str(ToString(n))

\* s.includes(sub) (433, 579).
includes(s, sub) ==
    \E t \in {s} :
        \E i \in 1..(Len(t) - Len(sub) + 1) : SubSeq(t, i, i + Len(sub) - 1) = sub

\* s.endsWith(c) for a single character c (433).
endsWith(s, c) == s # <<>> /\ s[Len(s)] = c

\* s.toLowerCase() (578), for the letters that occur here.
UpperCase == Str("ABCDEFGHIJKLMNOPQRSTUVWXYZ")
LowerCase == Str("abcdefghijklmnopqrstuvwxyz")
toLowerCase(s) ==
    [i \in 1..Len(s) |->
        IF \E j \in 1..26 : UpperCase[j] = s[i]
        THEN LowerCase[CHOOSE j \in 1..26 : UpperCase[j] = s[i]] ELSE s[i]]

\* lines.join(' ') (578).
RECURSIVE join(_)
join(lines) ==
    IF lines = <<>> THEN <<>>
    ELSE IF Len(lines) = 1 THEN lines[1]
    ELSE lines[1] \o <<" ">> \o join(Tail(lines))

\* lines.slice(-n) and lines.slice(Math.max(0, lines.length - n)) (431, 578).
lastLines(lines, n) ==
    SubSeq(lines, IF Len(lines) > n THEN Len(lines) - n + 1 ELSE 1, Len(lines))

HexDigits == {"0", "1", "2", "3", "4", "5", "6", "7", "8", "9",
              "a", "b", "c", "d", "e", "f", "A", "B", "C", "D", "E", "F"}

\* The first index from i on at which s has no whitespace (\s*).
RECURSIVE skipSpace(_, _)
skipSpace(s, i) ==
    IF i <= Len(s) /\ s[i] \in WhiteSpace THEN skipSpace(s, i + 1) ELSE i

\* The number of hexadecimal digits of s from index i on.
RECURSIVE hexRun(_, _)
hexRun(s, i) ==
    IF i <= Len(s) /\ s[i] \in HexDigits THEN 1 + hexRun(s, i + 1) ELSE 0

\* At least k groups [0-9A-Fa-f]{2}\s+ follow one another from index i.
RECURSIVE byteGroups(_, _, _)
byteGroups(s, i, k) ==
    \/ k = 0
    \/ /\ i + 2 <= Len(s)
       /\ s[i] \in HexDigits /\ s[i + 1] \in HexDigits /\ s[i + 2] \in WhiteSpace
       /\ \E j \in {skipSpace(s, i + 2)} : byteGroups(s, j, k - 1)

\* line.match(/^\s*[0-9A-Fa-f]{2,4}:\s+(?:[0-9A-Fa-f]{2}\s+){8,}/) (595, 600, 1408).
isHexRow(line) ==
    \E a \in {skipSpace(line, 1)} :
        \E n \in {hexRun(line, a)} :
            /\ n >= 2 /\ n <= 4
            /\ a + n + 1 <= Len(line)
            /\ line[a + n] = ":" /\ line[a + n + 1] \in WhiteSpace
            /\ \E j \in {skipSpace(line, a + n + 1)} : byteGroups(line, j, 8)

\* LOG_LINES.filter(line => line.match(...)).length (595, 600).
hexLineCount(lines) ==
    Cardinality({i \in DOMAIN lines : \E line \in {lines[i]} : isHexRow(line)})

\* The text the device sends when a connection is made.
Greeting == << <<"a", LF>> >>

\* The state after construction (4-13), the device's output apart.
Constructed ==
    /\ LOG_LINES = <<>> /\ port = NULL /\ reader = NULL /\ writer = NULL
    /\ textDecoder = NULL /\ textEncoder = NULL
    /\ readableStreamClosed = NULL /\ writableStreamClosed = NULL
    /\ isConnecting = FALSE /\ lineBuffer = <<>>
    /\ portSess = [p \in Ports |-> NULL] /\ nSess = 0
    /\ attachR = [i \in Streams |-> NULL] /\ attachW = [i \in Streams |-> NULL]
    /\ rst = [i \in Streams |-> "none"] /\ wst = [i \in Streams |-> "none"]
    /\ nStreams = 0 /\ loops = [i \in Streams |-> 0]
    /\ pc = [c \in Callers |-> "idle"]
    /\ selectedPort = [c \in Callers |-> NULL]
    /\ awaited = [c \in Callers |-> NULL]
    /\ ncalls = 0
    /\ dpTrace = [c \in Callers |-> <<>>]
    /\ oldSess = [c \in Callers |-> NULL]
    /\ mySess = [c \in Callers |-> NULL]
    /\ settleQ = <<>> /\ earlyWrites = {}
    /\ run = [r \in Runs |-> IdleRun] /\ calls = <<>>
    /\ returned = [r \in Runs |-> "none"]
    /\ received = <<>> /\ fresh = <<>>

Init == Constructed /\ input = Greeting

\* Closing a transport ends the readable side of every stream piped from it.
EndReads(s) ==
    [i \in Streams |-> IF attachR[i] = s /\ rst[i] = "live" THEN "closed" ELSE rst[i]]

\* ------------------------------------------------------- disconnectPort
\* C25 mutant: the port is closed first, whatever is still attached to it.
DpStage_PortFirst(k, r, rsc, w, wsc) == 5

\* The teardown steps of disconnectPort in program order: 1 reader.cancel(),
\* 2 readableStreamClosed, 3 writer.close(), 4 writableStreamClosed,
\* 5 port.close().  DpStage is the first step at or after k whose guard holds
\* for the given values of reader, readableStreamClosed, writer and
\* writableStreamClosed.
DpStage(k, r, rsc, w, wsc) ==
    IF k <= 1 /\ r # NULL THEN 1
    ELSE IF k <= 2 /\ rsc # NULL THEN 2
    ELSE IF k <= 3 /\ w # NULL THEN 3
    ELSE IF k <= 4 /\ wsc # NULL THEN 4
    ELSE 5

\* Lines 290-291 and the return of disconnectPort to its caller's await.
DpFinish(c, tr) ==
    /\ port' = NULL
    /\ isConnecting' = FALSE
    /\ pc' = [pc EXCEPT ![c] = "dp_done"]
    /\ awaited' = [awaited EXCEPT ![c] = NULL]
    /\ dpTrace' = [dpTrace EXCEPT ![c] = tr]

\* C7 mutant: the catch block rethrows, so the error leaves disconnectPort before
\* lines 290-291 run.
DpCatch_Rethrow(c, tr) ==
    /\ pc' = [pc EXCEPT ![c] = "idle"]
    /\ awaited' = [awaited EXCEPT ![c] = NULL]
    /\ dpTrace' = [dpTrace EXCEPT ![c] = tr]
    /\ UNCHANGED <<port, isConnecting>>

\* The catch block of disconnectPort (285-288): the error is logged and control
\* falls through to line 290; no later teardown step runs.
DpCatch(c, tr) == DpFinish(c, Append(tr, "error-logged"))

\* disconnectPort from teardown step k on, up to its next await; r, rsc, w, wsc
\* are the values of the four stream variables after the assignment just made.
DpEnter(c, k, r, rsc, w, wsc, tr) ==
    LET st == DpStage(k, r, rsc, w, wsc)
        at(loc, obj, name) ==
            /\ pc' = [pc EXCEPT ![c] = loc]
            /\ awaited' = [awaited EXCEPT ![c] = obj]
            /\ dpTrace' = [dpTrace EXCEPT ![c] = Append(tr, name)]
            /\ UNCHANGED <<port, isConnecting, textDecoder, textEncoder>>
    IN  /\ reader' = r /\ readableStreamClosed' = rsc
        /\ writer' = w /\ writableStreamClosed' = wsc
        /\ CASE st = 1 -> at("dp_cancel", r, "cancel")
             [] st = 2 -> at("dp_rclosed", rsc, "rclosed")
             [] st = 3 -> at("dp_wclose", w, "wclose")
             [] st = 4 -> at("dp_wclosed", wsc, "wclosed")
             [] st = 5 ->
                  /\ textDecoder' = NULL /\ textEncoder' = NULL
                  /\ IF port = NULL
                     THEN DpCatch(c, Append(tr, "pclose"))   \* null.close() throws
                     ELSE /\ pc' = [pc EXCEPT ![c] = "dp_pclose"]
                          /\ awaited' = [awaited EXCEPT ![c] = port]
                          /\ dpTrace' = [dpTrace EXCEPT ![c] = Append(tr, "pclose")]
                          /\ UNCHANGED <<port, isConnecting>>

dpRest == <<pipeVars, selectedPort, ncalls, oldSess, mySess, obsVars, scVars>>

\* await reader.cancel() settles (257-258).
disconnectPort_cancel(c) ==
    /\ pc[c] = "dp_cancel"
    /\ LET h == awaited[c] IN
       \E ok \in BOOLEAN :
         IF ok
         THEN /\ rst[h] # "errored"
              /\ rst' = [rst EXCEPT ![h] = "closed"]
              /\ DpEnter(c, 2, NULL, readableStreamClosed, writer,
                         writableStreamClosed, dpTrace[c])
         ELSE /\ DpCatch(c, dpTrace[c])
              /\ UNCHANGED <<rst, strmVars>>
    /\ UNCHANGED <<portSess, nSess, attachR, attachW, wst, nStreams, loops, dpRest>>

\* await readableStreamClosed.catch(() => {}) settles (262-263).
disconnectPort_readableClosed(c) ==
    /\ pc[c] = "dp_rclosed"
    /\ DpEnter(c, 3, reader, NULL, writer, writableStreamClosed, dpTrace[c])
    /\ UNCHANGED <<envVars, dpRest>>

\* await writer.close() settles (268-269).
disconnectPort_writerClose(c) ==
    /\ pc[c] = "dp_wclose"
    /\ LET h == awaited[c] IN
       \E ok \in BOOLEAN :
         IF ok
         THEN /\ wst[h] = "open"
              /\ wst' = [wst EXCEPT ![h] = "closed"]
              /\ DpEnter(c, 4, reader, readableStreamClosed, NULL,
                         writableStreamClosed, dpTrace[c])
         ELSE /\ DpCatch(c, dpTrace[c])
              /\ UNCHANGED <<wst, strmVars>>
    /\ UNCHANGED <<portSess, nSess, attachR, attachW, rst, nStreams, loops, dpRest>>

\* await writableStreamClosed.catch(() => {}) settles (273-282).
disconnectPort_writableClosed(c) ==
    /\ pc[c] = "dp_wclosed"
    /\ DpEnter(c, 5, reader, readableStreamClosed, writer, NULL, dpTrace[c])
    /\ UNCHANGED <<envVars, dpRest>>

\* await port.close() settles (282-291).
disconnectPort_portClose(c) ==
    /\ pc[c] = "dp_pclose"
    /\ LET p == awaited[c] IN
       \E ok \in BOOLEAN :
         IF ok
         THEN /\ portSess[p] # NULL
              /\ portSess' = [portSess EXCEPT ![p] = NULL]
              /\ rst' = EndReads(portSess[p])
              /\ DpFinish(c, Append(dpTrace[c], "closed"))
         ELSE /\ DpCatch(c, dpTrace[c])
              /\ UNCHANGED <<portSess, rst>>
    /\ UNCHANGED <<strmVars, nSess, attachR, attachW, wst, nStreams, loops, dpRest>>

\* -------------------------------------------------------- connectToPort
\* The locals of an invocation that has returned.
Return(c) ==
    /\ pc' = [pc EXCEPT ![c] = "idle"]
    /\ awaited' = [awaited EXCEPT ![c] = NULL]
    /\ selectedPort' = [selectedPort EXCEPT ![c] = NULL]
    /\ oldSess' = [oldSess EXCEPT ![c] = NULL]
    /\ mySess' = [mySess EXCEPT ![c] = NULL]

\* The catch block of connectToPort (223-246).
ConnCatch(c) ==
    /\ port' = NULL
    /\ isConnecting' = FALSE
    /\ Return(c)

\* The normal return of connectToPort (206-221).
ConnReturn(c) ==
    /\ Return(c)
    /\ UNCHANGED <<port, isConnecting>>

\* Lines 168-178: the try block up to its first await, for selected port p.
TryOpen(c, p) ==
    /\ selectedPort' = [selectedPort EXCEPT ![c] = p]
    /\ pc' = [pc EXCEPT ![c] = IF portSess[p] # NULL THEN "sp_close" ELSE "open"]

\* Lines 141-166: the busy flag is raised, then either the port dialog is shown
\* (no option selected) or the selected option's port is used.
ConnectBody(c) ==
    /\ isConnecting' = TRUE
    /\ \/ /\ pc' = [pc EXCEPT ![c] = "req"]
          /\ UNCHANGED selectedPort
       \/ \E p \in Ports : TryOpen(c, p)

\* connectToPort is invoked (129-141).
connectToPort(c) ==
    /\ pc[c] = "idle"
    /\ ncalls < MaxCalls
    /\ ncalls' = ncalls + 1
    /\ IF isConnecting
       THEN UNCHANGED <<connVars, strmVars, pc, selectedPort, awaited, dpTrace, oldSess>>
       ELSE IF port # NULL
       THEN /\ oldSess' = [oldSess EXCEPT ![c] = portSess[port]]
            /\ DpEnter(c, 1, reader, readableStreamClosed, writer,
                       writableStreamClosed, <<>>)
            /\ UNCHANGED selectedPort
       ELSE /\ ConnectBody(c)
            /\ UNCHANGED <<port, strmVars, awaited, dpTrace, oldSess>>
    /\ UNCHANGED <<pipeVars, envVars, mySess, obsVars, scVars>>

\* await disconnectPort() resumes (138-141).
connectToPort_disconnected(c) ==
    /\ pc[c] = "dp_done"
    /\ ConnectBody(c)
    /\ dpTrace' = [dpTrace EXCEPT ![c] = <<>>]
    /\ UNCHANGED <<port, strmVars, pipeVars, envVars, awaited, ncalls, oldSess,
                   mySess, obsVars, scVars>>

\* await navigator.serial.requestPort() settles (149-160, 168-178): the user
\* picks a port, the list is refreshed and the try block is entered; or the
\* dialog is dismissed.
connectToPort_requested(c) ==
    /\ pc[c] = "req"
    /\ \/ /\ \E p \in Ports : TryOpen(c, p)
          /\ UNCHANGED <<isConnecting, awaited, oldSess, mySess>>
       \/ /\ isConnecting' = FALSE
          /\ Return(c)
    /\ UNCHANGED <<port, strmVars, pipeVars, envVars, ncalls, dpTrace, obsVars, scVars>>

\* await selectedPort.close() settles and the 1 s pause elapses (172-178): open()
\* is invoked; or close() rejects.
connectToPort_closedFirst(c) ==
    /\ pc[c] = "sp_close"
    /\ LET p == selectedPort[c] IN
       \E ok \in BOOLEAN :
         IF ok
         THEN /\ portSess[p] # NULL
              /\ portSess' = [portSess EXCEPT ![p] = NULL]
              /\ rst' = EndReads(portSess[p])
              /\ pc' = [pc EXCEPT ![c] = "open"]
              /\ UNCHANGED <<connVars, selectedPort, awaited, oldSess, mySess>>
         ELSE /\ ConnCatch(c)
              /\ UNCHANGED <<portSess, rst>>
    /\ UNCHANGED <<strmVars, pipeVars, nSess, attachR, attachW, wst, nStreams, loops,
                   ncalls, dpTrace, obsVars, scVars>>

\* await selectedPort.open() settles (178-191).  open() rejects on a port that is
\* already open.
connectToPort_opened(c) ==
    /\ pc[c] = "open"
    /\ LET p == selectedPort[c] IN
       \E ok \in BOOLEAN :
         IF ok
         THEN /\ portSess[p] = NULL
              /\ nSess' = nSess + 1
              /\ portSess' = [portSess EXCEPT ![p] = nSess + 1]
              /\ port' = p
              /\ mySess' = [mySess EXCEPT ![c] = nSess + 1]
              /\ oldSess' = [oldSess EXCEPT ![c] = NULL]
              /\ selectedPort' = [selectedPort EXCEPT ![c] = NULL]
              /\ pc' = [pc EXCEPT ![c] = "settle"]
              /\ settleQ' = Append(settleQ, c)
              /\ UNCHANGED <<isConnecting, awaited>>
         ELSE /\ ConnCatch(c)
              /\ UNCHANGED <<portSess, nSess, settleQ>>
    /\ UNCHANGED <<strmVars, pipeVars, attachR, attachW, rst, wst, nStreams, loops,
                   ncalls, dpTrace, earlyWrites, scVars>>

\* ---------------------------------------------------- setupSerialStreams
\* A pipe onto a stream of the port that another pipe still holds locked is
\* rejected: the new reader or writer is then attached to no transport.
ReadableLocked(s) == \E i \in Streams : attachR[i] = s /\ rst[i] = "live"
WritableLocked(s) == \E i \in Streams : attachW[i] = s /\ wst[i] = "open"

\* setupSerialStreams (306-327), with the synchronous start of readLoop (331-333).
setupSerialStreams ==
    LET id == nStreams + 1
        s  == portSess[port]
    IN  IF port = NULL
        THEN UNCHANGED <<strmVars, attachR, attachW, rst, wst, nStreams, loops>>
        ELSE IF s = NULL
        THEN \* port.readable is null: pipeTo throws after textDecoder is assigned
             /\ textDecoder' = id
             /\ nStreams' = id
             /\ UNCHANGED <<reader, writer, textEncoder, readableStreamClosed,
                            writableStreamClosed, attachR, attachW, rst, wst, loops>>
        ELSE /\ textDecoder' = id /\ readableStreamClosed' = id /\ reader' = id
             /\ textEncoder' = id /\ writableStreamClosed' = id /\ writer' = id
             /\ attachR' = [attachR EXCEPT ![id] = IF ReadableLocked(s) THEN NULL ELSE s]
             /\ attachW' = [attachW EXCEPT ![id] = IF WritableLocked(s) THEN NULL ELSE s]
             /\ rst' = [rst EXCEPT ![id] = "live"]
             /\ wst' = [wst EXCEPT ![id] = "open"]
             /\ nStreams' = id
             /\ loops' = [loops EXCEPT ![id] = 1]

\* --------------------------------------------------- performCLIHandshake
\* A transport is inside its settle delay while the invocation that opened it
\* is (mySess is set by open() and cleared when the delay has elapsed).
\* NoteWrite: the transports written to early, after a write through writer w
\* is started in the state this step leads to.
NoteWrite(w) ==
    IF /\ wst'[w] = "open"
       /\ \E p \in Ports : portSess'[p] = attachW'[w] /\ attachW'[w] # NULL
       /\ \E c \in Callers : mySess'[c] = attachW'[w]
    THEN earlyWrites \cup {attachW'[w]} ELSE earlyWrites

\* `await writer.write(...)` inside performCLIHandshake: a null writer throws into
\* the catch block of connectToPort; ic is the value isConnecting has by then.
HsWrite(c, loc, ic) ==
    IF writer' = NULL
    THEN /\ ConnCatch(c)
         /\ UNCHANGED earlyWrites
    ELSE /\ pc' = [pc EXCEPT ![c] = loc]
         /\ awaited' = [awaited EXCEPT ![c] = writer']
         /\ mySess' = [mySess EXCEPT ![c] = NULL]
         /\ earlyWrites' = NoteWrite(writer')
         /\ isConnecting' = ic
         /\ UNCHANGED <<port, selectedPort, oldSess>>

\* The 2 s settle delay elapses (191-203, 459-464): streams are set up, the busy
\* flag is cleared and the handshake clears lineBuffer and sends the wake-up.
connectToPort_settled(c) ==
    /\ pc[c] = "settle"
    /\ settleQ # <<>> /\ Head(settleQ) = c
    /\ settleQ' = Tail(settleQ)
    /\ setupSerialStreams
    /\ lineBuffer' = <<>>
    /\ fresh' = <<>>
    /\ UNCHANGED <<LOG_LINES, input, received, portSess, nSess, ncalls, dpTrace, scVars>>
    /\ HsWrite(c, "hs_w1", FALSE)

\* The probe that follows each write of the handshake.
HsAfterWrite == [hs_w1 |-> "hs_w2", hs_w2 |-> "hs_w3"]

\* A write is rejected when the writer is closed or its pipe fails; a writer that
\* is piped to nothing never completes a write.
WriteMayFail(w) == wst[w] # "open" \/ attachW[w] # NULL

hsSame == <<connVars, selectedPort, awaited, oldSess, mySess>>

\* await writer.write(...) of the wake-up or of the help probe settles and the
\* pause after it elapses (464-475): the next probe is written; or the write
\* rejects.
performCLIHandshake_probe(c) ==
    /\ pc[c] \in DOMAIN HsAfterWrite
    /\ UNCHANGED <<strmVars, pipeVars, envVars, ncalls, dpTrace, settleQ, scVars>>
    /\ \E ok \in BOOLEAN :
         IF ok
         THEN /\ WriterLive(awaited[c])
              /\ HsWrite(c, HsAfterWrite[pc[c]], isConnecting)
         ELSE /\ WriteMayFail(awaited[c])
              /\ ConnCatch(c)
              /\ UNCHANGED earlyWrites

\* await writer.write('ver') settles and the last pause elapses (475-497): the
\* transcript is examined.  The transcript's contents are not tracked here, so
\* either outcome of the examination may occur.
performCLIHandshake_checked(c) ==
    /\ pc[c] = "hs_w3"
    /\ UNCHANGED <<strmVars, pipeVars, envVars, ncalls, dpTrace, obsVars, scVars>>
    /\ \E ok \in BOOLEAN :
         IF ok
         THEN /\ WriterLive(awaited[c])
              /\ \/ ConnReturn(c)
                 \/ IF port = NULL
                    THEN ConnReturn(c)   \* null.setSignals throws into the inner catch
                    ELSE /\ pc' = [pc EXCEPT ![c] = "hs_s1"]
                         /\ UNCHANGED hsSame
         ELSE /\ WriteMayFail(awaited[c])
              /\ ConnCatch(c)

\* await port.setSignals(...) settles and the pause after it elapses (497-503,
\* 206-221); a rejection is caught and logged.
performCLIHandshake_signalled(c) ==
    /\ pc[c] \in {"hs_s1", "hs_s2"}
    /\ UNCHANGED <<strmVars, pipeVars, envVars, ncalls, dpTrace, obsVars, scVars>>
    /\ \/ IF pc[c] = "hs_s1" /\ port # NULL
          THEN /\ pc' = [pc EXCEPT ![c] = "hs_s2"]
               /\ UNCHANGED hsSame
          ELSE ConnReturn(c)
       \/ ConnReturn(c)

\* -------------------------------------------------------------- readLoop
\* The loop test of readLoop (331) followed by reader.read() (333): the invocation
\* that awaited stream pair h goes on to await the current reader, or exits.
LoopAgain(h) ==
    IF port # NULL /\ reader # NULL
    THEN [loops EXCEPT ![h] = @ - 1, ![reader] = IF reader = h THEN loops[h] ELSE @ + 1]
    ELSE [loops EXCEPT ![h] = @ - 1]

\* reader.read() yields the device's next chunk (333-352).
readLoop_chunk(h) ==
    /\ loops[h] > 0
    /\ ReaderLive(h)
    /\ input # <<>>
    /\ LET value == Head(input)
           lines == split(lineBuffer \o value)
       IN  /\ input' = Tail(input)
           /\ received' = Append(received, value)
           /\ fresh' = fresh \o value
           /\ IF value # <<>>
              THEN /\ LOG_LINES' = LogCompleteLines(LOG_LINES, lines, 1)
                   /\ lineBuffer' = lines[Len(lines)]
              ELSE UNCHANGED <<LOG_LINES, lineBuffer>>
    /\ loops' = LoopAgain(h)
    /\ UNCHANGED <<connVars, strmVars, portSess, nSess, attachR, attachW,
                   rst, wst, nStreams, callVars, obsVars, scVars>>

\* reader.read() reports done (334-336) or rejects (353-357): the loop exits.
readLoop_exit(h) ==
    /\ loops[h] > 0
    /\ \/ /\ rst[h] = "closed"
          /\ UNCHANGED rst
       \/ /\ rst[h] \in {"live", "errored"}
          /\ attachR[h] # NULL
          /\ rst' = [rst EXCEPT ![h] = "errored"]
    /\ loops' = [loops EXCEPT ![h] = @ - 1]
    /\ UNCHANGED <<connVars, strmVars, pipeVars, portSess, nSess, attachR, attachW,
                   wst, nStreams, callVars, obsVars, scVars>>

\* ----------------------------------------------------------- sendCommand
\* What a step of a run leaves alone, the writable sides apart.
runSame == <<connVars, strmVars, lineBuffer, input, received, fresh, portSess, nSess,
             attachR, attachW, rst, nStreams, loops, callVars, settleQ>>

\* logLine for each message of a list, in order.
RECURSIVE logLines(_, _)
logLines(log, messages) ==
    IF messages = <<>> THEN log
    ELSE logLines(logLine(log, Head(messages)), Tail(messages))

\* The run goes on as rec with transcript log; nothing is written.
Goto(r, rec, log) ==
    /\ LOG_LINES' = log
    /\ run' = [run EXCEPT ![r] = rec]
    /\ UNCHANGED <<calls, earlyWrites>>

\* C11 mutant: the guard of line 363 tests the port only, so a call made while
\* writer is null goes on to the write.
sendCommand_PortOnly(r, rec, site, command, log) ==
    IF port = NULL
    THEN /\ LOG_LINES' = logLine(log, Str("Error: Not connected to any port."))
         /\ run' = [run EXCEPT ![r] = [rec EXCEPT !.pc = "sc_ret", !.site = site,
                                                   !.cmd = command, !.ok = FALSE]]
         /\ calls' = Append(calls, [run |-> r, cmd |-> command, to |-> NULL])
         /\ UNCHANGED earlyWrites
    ELSE /\ LOG_LINES' = log
         /\ run' = [run EXCEPT ![r] = [rec EXCEPT !.pc = "sc_w", !.site = site,
                                                   !.cmd = command, !.awaited = writer]]
         /\ calls' = Append(calls, [run |-> r, cmd |-> command, to |-> writer])
         /\ UNCHANGED earlyWrites

\* sendCommand(command) up to its first await (362-370), called by run r at
\* site; rec and log are the run and the transcript as the caller's code before
\* the call has left them.
sendCommand(r, rec, site, command, log) ==
    IF port = NULL \/ writer = NULL \/ isConnecting
    THEN /\ LOG_LINES' = logLine(log, Str("Error: Not connected to any port."))
         /\ run' = [run EXCEPT ![r] = [rec EXCEPT !.pc = "sc_ret", !.site = site,
                                                   !.cmd = command, !.ok = FALSE]]
         /\ calls' = Append(calls, [run |-> r, cmd |-> command, to |-> NULL])
         /\ UNCHANGED earlyWrites
    ELSE /\ LOG_LINES' = log
         /\ run' = [run EXCEPT ![r] = [rec EXCEPT !.pc = "sc_w", !.site = site,
                                                   !.cmd = command, !.awaited = writer]]
         /\ calls' = Append(calls, [run |-> r, cmd |-> command, to |-> writer])
         /\ earlyWrites' = NoteWrite(writer)

\* The message of the error a rejected write carries.
WriteErrorMessage == Str("The device has been lost.")

\* ------------------------------------------------ readBoardConfiguration
\* initCommands (512-518).
initCommands == <<Str("i2c begin"), Str("i2c speed 400000"), Str("eeprom init"),
                  Str("eeprom addr 0x50"), Str("scan")>>

\* muxChannels and channelRange (561-562), and the coordinates the two nested
\* for loops (564-567) visit, in order.
muxChannels == <<"a", "b">>
channelRange == [i \in 1..16 |-> i - 1]
scanChannels ==
    [n \in 1..(Len(muxChannels) * Len(channelRange)) |->
        [mux |-> muxChannels[((n - 1) \div Len(channelRange)) + 1],
         channel |-> channelRange[((n - 1) % Len(channelRange)) + 1]]]

\* mux.toUpperCase() (565, 568, 1033).
toUpperCase(mux) == IF mux = "a" THEN "A" ELSE "B"

\* `sm ${mux} ${channel}` (571, 1036).
selectCmd(c) == Str("sm ") \o <<c.mux, " ">> \o Num(c.channel)

\* parseLogWithBackend up to its fetch (748-756), called at the end of a run.
parseLogWithBackend(r, log) ==
    Goto(r, [run[r] EXCEPT !.pc = "parse", !.site = "none"],
         logLine(log, <<LF>> \o Str("=== Sending log data to backend for parsing ===")))

\* The body of the inner for loop up to its first await (564-572) for the n-th
\* coordinate, or the code after the loops (614-617) when none is left.
scanChannel(r, n, log) ==
    IF n > Len(scanChannels)
    THEN parseLogWithBackend(r, logLine(log, <<LF>> \o Str("=== Board scan completed ===")))
    ELSE LET c == scanChannels[n]
             heading == IF c.channel = channelRange[1]
                        THEN << <<LF>> \o Str("=== Scanning MUX ") \o <<toUpperCase(c.mux)>>
                                       \o Str(" ===") >>
                        ELSE <<>>
             title == <<LF>> \o Str("--- MUX ") \o <<toUpperCase(c.mux)>>
                             \o Str(", Channel ") \o Num(c.channel) \o Str(" ---")
         IN  sendCommand(r, [run[r] EXCEPT !.ch = n], "select", selectCmd(c),
                         logLines(log, heading \o <<title>>))

\* initializeI2CBus from the k-th command on (520-523).
initCommand(r, k, log) ==
    sendCommand(r, [run[r] EXCEPT !.k = k], "init", initCommands[k],
                logLine(log, Str("Sending: ") \o initCommands[k]))

\* C12 mutant: sendCommand has no catch block, so a rejected write is raised
\* into the catch block of readBoardConfiguration (619-632), which ends the scan.
scanAfterSend_Raise(r, ok, log) ==
    LET at == run[r].site
        waiting == [run[r] EXCEPT !.pc = "wait", !.ok = ok, !.t = 0, !.due = 1]
    IN  IF ~ok
        THEN Goto(r, [IdleRun EXCEPT !.runs = run[r].runs + 1],
                  logLine(log, Str("Error reading board: ") \o WriteErrorMessage))
        ELSE CASE at = "init" ->
                    IF run[r].k < Len(initCommands)
                    THEN initCommand(r, run[r].k + 1, log)
                    ELSE scanChannel(r, 1,
                            logLines(log, <<Str("I2C initialization sequence completed"),
                                Str("I2C bus initialized successfully - ready for fast EEPROM reads")>>))
               [] OTHER -> Goto(r, waiting, log)

\* readBoardConfiguration and initializeI2CBus after `await sendCommand(...)`
\* has given ok (524-533, 558-575, 586-589, 596-597, 605-606).
scanAfterSend(r, ok, log) ==
    LET at == run[r].site
        waiting == [run[r] EXCEPT !.pc = "wait", !.ok = ok, !.t = 0, !.due = 1]
    IN  CASE at = "init" ->
               IF run[r].k < Len(initCommands)
               THEN initCommand(r, run[r].k + 1, log)
               ELSE scanChannel(r, 1,
                       logLines(log, <<Str("I2C initialization sequence completed"),
                           Str("I2C bus initialized successfully - ready for fast EEPROM reads")>>))
          [] at = "select" ->
               IF ok THEN Goto(r, waiting, log) ELSE scanChannel(r, run[r].ch + 1, log)
          [] OTHER -> Goto(r, waiting, log)

\* C23 mutant: the test of line 579 is left out, so no selection counts as failed.
selectionFailed_Never(log) == FALSE

\* The test of line 579 on the last three lines of the transcript.
selectionFailed(log) ==
    \E recentLog \in {toLowerCase(join(lastLines(log, 3)))} :
        includes(recentLog, Str("error")) \/ includes(recentLog, Str("fail"))

\* The locals of a run whose wait has resolved: those of the wait are gone.
WaitOver(rec) == [rec EXCEPT !.last = 0, !.stable = 0, !.t = 0, !.due = 0, !.seen = <<>>]

\* C14 mutant: a failed selection leaves the loops (break, not continue) and the
\* scan is handed to the parser.
scanAfterWait_Break(r) ==
    LET rec == WaitOver(run[r])
        at == rec.site
    IN  CASE at = "select" ->
               IF selectionFailed(LOG_LINES)
               THEN scanChannel(r, Len(scanChannels) + 1,
                       logLine(LOG_LINES, Str("Skipping channel ")
                           \o Num(scanChannels[rec.ch].channel)
                           \o Str(" - MUX selection failed")))
               ELSE sendCommand(r, rec, "er", Str("er 0 64"),
                       logLine(LOG_LINES, Str("Reading EEPROM data into buffer...")))
          [] at = "er" ->
               sendCommand(r, [rec EXCEPT !.before = hexLineCount(LOG_LINES)],
                           "hd1", Str("hd 0 16"), LOG_LINES)
          [] at = "hd1" ->
               IF hexLineCount(LOG_LINES) = rec.before
               THEN Goto(r, [rec EXCEPT !.pc = "timer", !.site = "retry"],
                         logLine(LOG_LINES, Str("First attempt failed, retrying...")))
               ELSE Goto(r, [rec EXCEPT !.pc = "timer", !.site = "settle"], LOG_LINES)
          [] OTHER -> scanChannel(r, rec.ch + 1, LOG_LINES)

\* C15 mutant: the retry is a loop, so a dump that gains no hex row is sent again
\* as long as none is gained.
scanAfterWait_RetryAgain(r) ==
    LET rec == WaitOver(run[r])
        at == rec.site
    IN  CASE at = "select" ->
               IF selectionFailed(LOG_LINES)
               THEN scanChannel(r, rec.ch + 1,
                       logLine(LOG_LINES, Str("Skipping channel ")
                           \o Num(scanChannels[rec.ch].channel)
                           \o Str(" - MUX selection failed")))
               ELSE sendCommand(r, rec, "er", Str("er 0 64"),
                       logLine(LOG_LINES, Str("Reading EEPROM data into buffer...")))
          [] at = "er" ->
               sendCommand(r, [rec EXCEPT !.before = hexLineCount(LOG_LINES)],
                           "hd1", Str("hd 0 16"), LOG_LINES)
          [] OTHER ->
               IF hexLineCount(LOG_LINES) = rec.before
               THEN Goto(r, [rec EXCEPT !.pc = "timer", !.site = "retry"],
                         logLine(LOG_LINES, Str("First attempt failed, retrying...")))
               ELSE Goto(r, [rec EXCEPT !.pc = "timer", !.site = "settle"], LOG_LINES)

\* C32 mutant: the retry is decided on the hex rows of the whole transcript: a
\* dump is retried only when the transcript holds no hex row at all.
scanAfterWait_AnyRow(r) ==
    LET rec == WaitOver(run[r])
        at == rec.site
    IN  CASE at = "select" ->
               IF selectionFailed(LOG_LINES)
               THEN scanChannel(r, rec.ch + 1,
                       logLine(LOG_LINES, Str("Skipping channel ")
                           \o Num(scanChannels[rec.ch].channel)
                           \o Str(" - MUX selection failed")))
               ELSE sendCommand(r, rec, "er", Str("er 0 64"),
                       logLine(LOG_LINES, Str("Reading EEPROM data into buffer...")))
          [] at = "er" ->
               sendCommand(r, [rec EXCEPT !.before = hexLineCount(LOG_LINES)],
                           "hd1", Str("hd 0 16"), LOG_LINES)
          [] at = "hd1" ->
               IF hexLineCount(LOG_LINES) = 0
               THEN Goto(r, [rec EXCEPT !.pc = "timer", !.site = "retry"],
                         logLine(LOG_LINES, Str("First attempt failed, retrying...")))
               ELSE Goto(r, [rec EXCEPT !.pc = "timer", !.site = "settle"], LOG_LINES)
          [] OTHER -> scanChannel(r, rec.ch + 1, LOG_LINES)

\* readBoardConfiguration after a wait for the prompt has resolved (577-586,
\* 592-596, 599-604, 610).
scanAfterWait(r) ==
    LET rec == WaitOver(run[r])
        at == rec.site
    IN  CASE at = "select" ->
               IF selectionFailed(LOG_LINES)
               THEN scanChannel(r, rec.ch + 1,
                       logLine(LOG_LINES, Str("Skipping channel ")
                           \o Num(scanChannels[rec.ch].channel)
                           \o Str(" - MUX selection failed")))
               ELSE sendCommand(r, rec, "er", Str("er 0 64"),
                       logLine(LOG_LINES, Str("Reading EEPROM data into buffer...")))
          [] at = "er" ->
               sendCommand(r, [rec EXCEPT !.before = hexLineCount(LOG_LINES)],
                           "hd1", Str("hd 0 16"), LOG_LINES)
          [] at = "hd1" ->
               IF hexLineCount(LOG_LINES) = rec.before
               THEN Goto(r, [rec EXCEPT !.pc = "timer", !.site = "retry"],
                         logLine(LOG_LINES, Str("First attempt failed, retrying...")))
               ELSE Goto(r, [rec EXCEPT !.pc = "timer", !.site = "settle"], LOG_LINES)
          [] OTHER -> scanChannel(r, rec.ch + 1, LOG_LINES)

\* readBoardConfiguration is invoked (536-557): with no port it alerts and
\* returns; the button that invokes it is disabled while it runs (543, 630).
readBoardConfiguration ==
    /\ run["scan"].pc = "idle" /\ run["scan"].runs < MaxRuns
    /\ UNCHANGED <<runSame, wst, returned>>
    /\ IF port = NULL
       THEN UNCHANGED <<LOG_LINES, run, calls, earlyWrites>>
       ELSE initCommand("scan", 1,
                <<Str("Starting board configuration read..."),
                  Str("This will scan all MUX channels for component data."),
                  Str("Initializing I2C bus and EEPROM systems...")>>)

\* A timer of readBoardConfiguration elapses: the 300 ms before the retry of
\* the hex dump (604-605) or the 750 ms after a channel (610).
readBoardConfiguration_timer ==
    /\ run["scan"].pc = "timer"
    /\ UNCHANGED <<runSame, wst, returned>>
    /\ IF run["scan"].site = "retry"
       THEN sendCommand("scan", run["scan"], "hd2", Str("hd 0 16"), LOG_LINES)
       ELSE scanChannel("scan", run["scan"].ch + 1, LOG_LINES)

\* ------------------------------------------------- diagnoseBoardEEPROMs
\* testChannels (1027-1030).
testChannels ==
    <<[mux |-> "a", channel |-> 0], [mux |-> "a", channel |-> 1],
      [mux |-> "a", channel |-> 2], [mux |-> "a", channel |-> 3],
      [mux |-> "b", channel |-> 0], [mux |-> "b", channel |-> 1],
      [mux |-> "b", channel |-> 2], [mux |-> "b", channel |-> 3]>>

\* The body of the for loop up to its first await (1032-1037) for the n-th
\* test channel, or the code after the loop (1055-1059) when none is left.
testChannel(r, n, log) ==
    IF n > Len(testChannels)
    THEN parseLogWithBackend(r,
            logLines(log, << <<LF>> \o Str("=== Diagnostic scan completed ==="),
                             Str("Analyzing raw data for any readable content...")>>))
    ELSE LET c == testChannels[n]
         IN  sendCommand(r, [run[r] EXCEPT !.ch = n], "select", selectCmd(c),
                 logLine(log, <<LF>> \o Str("--- Testing MUX ") \o <<toUpperCase(c.mux)>>
                                   \o Str(", Channel ") \o Num(c.channel) \o Str(" ---")))

\* diagnoseBoardEEPROMs after `await sendCommand(...)` has given ok (1037-1040,
\* 1044-1045, 1048-1049): waitForCompleteResponse starts (385-389, 414).
diagAfterSend(r, ok, log) ==
    IF run[r].site = "select" /\ ~ok
    THEN testChannel(r, run[r].ch + 1, log)
    ELSE Goto(r, [run[r] EXCEPT !.pc = "wait", !.ok = ok, !.last = Len(log), !.stable = 0,
                                !.t = 0, !.due = 2, !.seen = <<>>],
              log)

\* C30 mutant: the dump is sent right after the select's wait; the buffer is
\* never read.
diagAfterWait_NoRead(r) ==
    LET rec == WaitOver(run[r])
        at == rec.site
    IN  CASE at = "select" ->
               sendCommand(r, rec, "hd", Str("hd 0 128"),
                   logLine(LOG_LINES, Str("Hex dumping EEPROM content...")))
          [] OTHER -> testChannel(r, rec.ch + 1, LOG_LINES)

\* diagnoseBoardEEPROMs after a wait for the response has resolved (1043-1044,
\* 1047-1048, 1052).
diagAfterWait(r) ==
    LET rec == WaitOver(run[r])
        at == rec.site
    IN  CASE at = "select" ->
               sendCommand(r, rec, "er", Str("er 0 128"),
                   logLine(LOG_LINES, Str("Reading EEPROM data into buffer...")))
          [] at = "er" ->
               sendCommand(r, rec, "hd", Str("hd 0 128"),
                   logLine(LOG_LINES, Str("Hex dumping EEPROM content...")))
          [] OTHER -> testChannel(r, rec.ch + 1, LOG_LINES)

\* diagnoseBoardEEPROMs is invoked (1005-1037): with no port it alerts and
\* returns; the button that invokes it is disabled while it runs (1012, 1067).
diagnoseBoardEEPROMs ==
    /\ run["diag"].pc = "idle" /\ run["diag"].runs < MaxRuns
    /\ UNCHANGED <<runSame, wst, returned>>
    /\ IF port = NULL
       THEN UNCHANGED <<LOG_LINES, run, calls, earlyWrites>>
       ELSE testChannel("diag", 1,
                <<Str("=== EEPROM Diagnostic Mode ==="),
                  Str("Checking each MUX channel for any stored data..."),
                  Str("This will show you exactly what is stored on your EEPROMs.")>>)

\* --------------------------------------------------------------- waits
AfterSend(r, ok, log) ==
    IF r = "scan" THEN scanAfterSend(r, ok, log) ELSE diagAfterSend(r, ok, log)

\* await writer.write(command + "\r\n") settles (370-381).  Fulfilled: after
\* the 100 ms delay the echo is logged and true returned.  Rejected: the stream
\* is errored from then on, the error is logged and false returned.  The
\* caller goes on at once.
sendCommand_written(r) ==
    /\ run[r].pc = "sc_w"
    /\ UNCHANGED runSame
    /\ \/ /\ WriterLive(run[r].awaited)
          /\ UNCHANGED wst
          /\ returned' = [returned EXCEPT ![r] = "true"]
          /\ AfterSend(r, TRUE, logLine(LOG_LINES, Str("> ") \o run[r].cmd))
       \/ /\ WriteMayFail(run[r].awaited)
          /\ wst' = [wst EXCEPT ![run[r].awaited] = "errored"]
          /\ returned' = [returned EXCEPT ![r] = "false"]
          /\ AfterSend(r, FALSE,
                logLine(LOG_LINES, Str("Write error: ") \o WriteErrorMessage))

\* The caller of a sendCommand that returned false without writing (365)
\* goes on.
sendCommand_returned(r) ==
    /\ run[r].pc = "sc_ret"
    /\ UNCHANGED <<runSame, wst>>
    /\ returned' = [returned EXCEPT ![r] = "false"]
    /\ AfterSend(r, FALSE, LOG_LINES)

\* C27 mutant: the whole transcript is searched for a prompt.
recentLines_All(log) == log

\* LOG_LINES.slice(Math.max(0, LOG_LINES.length - 10)) (431).
recentLines(log) == lastLines(log, 10)

\* The test of waitForPrompt on the last ten lines of the transcript (431-434).
hasPrompt(log) ==
    \E recent \in {recentLines(log)} :
        \E i \in DOMAIN recent :
            \E line \in {recent[i]} :
                endsWith(trim(line), ">") \/ includes(line, <<"$">>)

\* C16 mutant: waitForPrompt has no timeout; it resolves on a prompt only.
waitForPrompt_poll_NoTimeout(r) ==
    /\ r = "scan"
    /\ run[r].pc = "wait"
    /\ UNCHANGED <<runSame, wst, returned>>
    /\ hasPrompt(LOG_LINES)
    /\ scanAfterWait(r)

\* A tick of the interval of waitForPrompt (429-440) at which it resolves:
\* a prompt is among the last lines, or the timeout has elapsed.  A tick at
\* which it does not resolve changes nothing.
waitForPrompt_poll(r) ==
    /\ r = "scan"
    /\ run[r].pc = "wait"
    /\ UNCHANGED <<runSame, wst, returned>>
    /\ \E elapsed \in BOOLEAN : hasPrompt(LOG_LINES) \/ elapsed
    /\ scanAfterWait(r)

\* A run of checkForStability (391-411); elapsed: the timeout has passed.
waitForCompleteResponse_poll(r) ==
    /\ r = "diag"
    /\ run[r].pc = "wait"
    /\ UNCHANGED <<runSame, wst, returned>>
    /\ \E elapsed \in BOOLEAN :
         LET same == Len(LOG_LINES) = run[r].last
             stableCount == IF same THEN run[r].stable + 1 ELSE 0
         IN  IF (same /\ stableCount >= 4) \/ elapsed
             THEN diagAfterWait(r)
             ELSE Goto(r, [run[r] EXCEPT !.stable = stableCount, !.last = Len(LOG_LINES)],
                       LOG_LINES)

\* ------------------------------------------------------ the waits in time
\* timeoutMs of the wait run r makes at site, in poll intervals: 50 ms for
\* waitForCompleteResponse (1000, 1000 and 2000 ms at 1040, 1045, 1049) and
\* 100 ms for waitForPrompt (2000, 6000 and 6000 ms at 575, 589, 597, 606).
timeoutTicks(r, site) ==
    IF r = "diag" THEN (IF site = "hd" THEN 2 * MaxTicks ELSE MaxTicks)
    ELSE (IF site = "select" THEN MaxTicks ELSE 3 * MaxTicks)

\* One poll interval passes while run r is in a wait.  Date.now() is followed
\* only up to the first interval past the timeout.
Tick(r) ==
    /\ run[r].pc = "wait"
    /\ run[r].t <= timeoutTicks(r, run[r].site)
    /\ run' = [run EXCEPT ![r].t = @ + 1]
    /\ UNCHANGED <<connVars, strmVars, pipeVars, envVars, callVars, obsVars, calls, returned>>

\* C26 mutant: three polls without growth are enough.
checkForStability_Three(r) ==
    /\ r = "diag"
    /\ run[r].pc = "wait"
    /\ run[r].t >= run[r].due
    /\ UNCHANGED <<runSame, wst, returned>>
    /\ LET currentLineCount == Len(LOG_LINES)
           same == currentLineCount = run[r].last
           stableCount == IF same THEN run[r].stable + 1 ELSE 0
           seen == IF run[r].seen = <<>> THEN <<run[r].last>> ELSE run[r].seen
       IN  IF (same /\ stableCount >= 3) \/ run[r].t > timeoutTicks(r, run[r].site)
           THEN diagAfterWait(r)
           ELSE Goto(r, [run[r] EXCEPT !.stable = stableCount, !.last = currentLineCount,
                                       !.due = run[r].t + 1,
                                       !.seen = Append(seen, currentLineCount)],
                     LOG_LINES)

\* checkForStability (391-411) runs, at time t of the wait: the timer set at
\* 414 (100 ms) or at 410 (50 ms) has fired, on time or late.
checkForStability(r) ==
    /\ r = "diag"
    /\ run[r].pc = "wait"
    /\ run[r].t >= run[r].due
    /\ UNCHANGED <<runSame, wst, returned>>
    /\ LET currentLineCount == Len(LOG_LINES)
           same == currentLineCount = run[r].last
           stableCount == IF same THEN run[r].stable + 1 ELSE 0
           seen == IF run[r].seen = <<>> THEN <<run[r].last>> ELSE run[r].seen
       IN  IF (same /\ stableCount >= 4) \/ run[r].t > timeoutTicks(r, run[r].site)
           THEN diagAfterWait(r)
           ELSE Goto(r, [run[r] EXCEPT !.stable = stableCount, !.last = currentLineCount,
                                       !.due = run[r].t + 1,
                                       !.seen = Append(seen, currentLineCount)],
                     LOG_LINES)

\* The callback of the interval of waitForPrompt (429-440) runs, at time t of
\* the wait.
waitForPrompt_tick(r) ==
    /\ r = "scan"
    /\ run[r].pc = "wait"
    /\ run[r].t >= run[r].due
    /\ UNCHANGED <<runSame, wst, returned>>
    /\ IF hasPrompt(LOG_LINES) \/ run[r].t > timeoutTicks(r, run[r].site)
       THEN scanAfterWait(r)
       ELSE Goto(r, [run[r] EXCEPT !.due = run[r].t + 1], LOG_LINES)

\* The fetch of parseLogWithBackend settles (752-829) and the run returns
\* (628-632, 1065-1069); what the backend answers, and the messages logged for
\* it, are left out.
parseLogWithBackend_done(r) ==
    /\ run[r].pc = "parse"
    /\ UNCHANGED <<runSame, wst, returned>>
    /\ Goto(r, [IdleRun EXCEPT !.runs = run[r].runs + 1], LOG_LINES)

\* How many lines of log are line.
Count(log, line) == Cardinality({i \in DOMAIN log : log[i] = line})

\* ---------------------------------------------------- analyzeScanFailure
Digits == {"0", "1", "2", "3", "4", "5", "6", "7", "8", "9"}

\* s holds sub at index i.
at(s, i, sub) == i + Len(sub) - 1 <= Len(s) /\ SubSeq(s, i, i + Len(sub) - 1) = sub

\* line.match(/>\s*sm\s+[ab]\s+\d+/) (1379).
isMuxCommand(line) ==
    \E i \in DOMAIN line :
        /\ line[i] = ">"
        /\ \E j \in {skipSpace(line, i + 1)} :
             /\ at(line, j, Str("sm"))
             /\ \E k \in {skipSpace(line, j + 2)} :
                  /\ k > j + 2
                  /\ k <= Len(line) /\ line[k] \in {"a", "b"}
                  /\ \E m \in {skipSpace(line, k + 1)} :
                       m > k + 1 /\ m <= Len(line) /\ line[m] \in Digits

\* C39 mutant: any text after "MUX " counts as an acknowledged selection, the
\* analysis' own "MUX Commands:" line included.
isMuxSelected_AnyMux(line) == \E i \in DOMAIN line : at(line, i, Str("MUX "))

\* line.match(/MUX [AB], Channel \d+/) || line.match(/Selected MUX [AB], Channel \d+/)
\* (1384).
isMuxSelected(line) ==
    \E i \in DOMAIN line :
        /\ at(line, i, Str("MUX "))
        /\ i + 4 <= Len(line) /\ line[i + 4] \in {"A", "B"}
        /\ at(line, i + 5, Str(", Channel "))
        /\ i + 15 <= Len(line) /\ line[i + 15] \in Digits

\* line.match(/>\s*hd\s+(16|64|128)/) (1389).
isHexDump(line) ==
    \E i \in DOMAIN line :
        /\ line[i] = ">"
        /\ \E j \in {skipSpace(line, i + 1)} :
             /\ at(line, j, Str("hd"))
             /\ \E k \in {skipSpace(line, j + 2)} :
                  /\ k > j + 2
                  /\ at(line, k, Str("16")) \/ at(line, k, Str("64")) \/ at(line, k, Str("128"))

\* The counters of analyzeScanFailure before its loop (1365-1374).
NoCounts == [totalMuxCommands |-> 0, successfulMuxCommands |-> 0, totalHexDumps |-> 0,
             successfulHexDumps |-> 0, hexDataFound |-> 0, failLines |-> 0,
             currentHexDumpHasData |-> FALSE]

\* One iteration of the loop (1376-1412) on line, from counters c.
countLine(c, line) ==
    LET dump == isHexDump(line)
        row == isHexRow(line)
    IN  [totalMuxCommands |-> c.totalMuxCommands + (IF isMuxCommand(line) THEN 1 ELSE 0),
         successfulMuxCommands |->
             c.successfulMuxCommands + (IF isMuxSelected(line) THEN 1 ELSE 0),
         totalHexDumps |-> c.totalHexDumps + (IF dump THEN 1 ELSE 0),
         successfulHexDumps |->
             c.successfulHexDumps
               + (IF dump /\ c.totalHexDumps > 0 /\ c.currentHexDumpHasData THEN 1 ELSE 0),
         hexDataFound |-> c.hexDataFound + (IF row THEN 1 ELSE 0),
         failLines |-> c.failLines + (IF trim(line) = Str("fail") THEN 1 ELSE 0),
         currentHexDumpHasData |-> row \/ (~dump /\ c.currentHexDumpHasData)]

\* The loop over lines i.. of the transcript (1376-1412).
RECURSIVE countLines(_, _, _)
countLines(lines, i, c) ==
    IF i > Len(lines) THEN c
    ELSE \* the counters are bound before the next iteration
         LET next == countLine(c, lines[i])
         IN  countLines(lines, i + 1, next)

\* C22 mutant: the loop also visits the fragment readLoop holds in lineBuffer.
analysis_WithFragment(lines) ==
    LET c == countLines(IF lineBuffer = <<>> THEN lines ELSE Append(lines, lineBuffer),
                        1, NoCounts)
    IN  [c EXCEPT !.successfulHexDumps =
            @ + (IF c.totalHexDumps > 0 /\ c.currentHexDumpHasData THEN 1 ELSE 0)]

\* The counters after the loop and the finalisation of the last dump (1414-1417).
analysis(lines) ==
    LET c == countLines(lines, 1, NoCounts)
    IN  [c EXCEPT !.successfulHexDumps =
            @ + (IF c.totalHexDumps > 0 /\ c.currentHexDumpHasData THEN 1 ELSE 0)]

\* The messages of the three diagnoses (1427-1454).  The signs the source puts
\* in front of some messages are outside ASCII; "[x]", "[!]" and "*" stand for
\* them.
NoEEPROMs ==
    <<Str("[x] ISSUE: No EEPROMs are responding to read commands"),
      <<>>,
      Str("Possible causes:"),
      Str("  1. No EEPROMs are physically connected to any MUX channels"),
      Str("  2. EEPROMs are connected but not properly wired (VCC, GND, SDA, SCL)"),
      Str("  3. EEPROMs are faulty or damaged"),
      Str("  4. Wrong EEPROM type (expecting 11AA010 or compatible)"),
      Str("  5. I2C address conflicts or wiring issues"),
      <<>>,
      Str("Next Steps:"),
      Str("  * Check physical EEPROM connections on your Cell Board"),
      Str("  * Verify EEPROM power (3.3V) and I2C wiring"),
      Str("  * Test with a known-good EEPROM programmed with component data"),
      Str("  * Use an I2C scanner to verify EEPROM addresses")>>

NoHardware ==
    <<Str("[x] ISSUE: No hardware communication detected"),
      <<>>,
      Str("Possible causes:"),
      Str("  * Serial port not connected properly"),
      Str("  * Wrong baud rate or communication settings"),
      Str("  * Hardware not powered on")>>

PartialIssue ==
    <<Str("[!]  PARTIAL ISSUE: Mixed communication results"),
      <<>>,
      Str("Some commands work but data reading is inconsistent."),
      Str("This suggests intermittent connection or hardware issues.")>>

\* C19 mutant: the first test looks at the select commands sent, not at the
\* selections recognised.
diagnosis_BySent(c) ==
    IF c.totalMuxCommands > 0 /\ c.successfulHexDumps = 0 THEN NoEEPROMs
    ELSE IF c.totalMuxCommands = 0 THEN NoHardware
    ELSE PartialIssue

\* The diagnosis chosen at 1427-1454.
diagnosis(c) ==
    IF c.successfulMuxCommands > 0 /\ c.successfulHexDumps = 0 THEN NoEEPROMs
    ELSE IF c.totalMuxCommands = 0 THEN NoHardware
    ELSE PartialIssue

AnalysisHeader == <<LF>> \o Str("=== DIAGNOSTIC ANALYSIS ===")

\* The lines analyzeScanFailure adds to transcript log (1362, 1420-1454); the
\* heading is in the transcript when the loop runs.
report(log) ==
    LET lines == logLine(log, AnalysisHeader)
        c == analysis(lines)
    IN  <<AnalysisHeader,
          Str("Hardware Communication Status:"),
          Str("  * MUX Commands: ") \o Num(c.successfulMuxCommands) \o <<"/">>
              \o Num(c.totalMuxCommands) \o Str(" successful"),
          Str("  * Hex Dump Commands: ") \o Num(c.successfulHexDumps) \o <<"/">>
              \o Num(c.totalHexDumps) \o Str(" successful"),
          Str("  * Hex Data Lines Found: ") \o Num(c.hexDataFound),
          <<LF>> \o Str("Diagnosis:")>> \o diagnosis(c)

\* analyzeScanFailure() is called (778, 817), the transcript holding fewer than
\* n analyses.
analyzeScanFailureWithin(n) ==
    /\ Count(LOG_LINES, AnalysisHeader) < n
    /\ LOG_LINES' = logLines(LOG_LINES, report(LOG_LINES))
    /\ UNCHANGED <<connVars, strmVars, lineBuffer, input, received, fresh, envVars,
                   callVars, obsVars, scVars>>

\* ... at most MaxRuns times.
analyzeScanFailure == analyzeScanFailureWithin(MaxRuns)

\* What the backend gives as the reason of a failure (814); any text.
BackendMessage == Str("no components")

\* The fetch of parseLogWithBackend settles with a result whose status is not
\* 'success' (813-821): the failure is logged, analyzeScanFailure() runs on the
\* transcript, the fallback is announced, and the run returns (628-632,
\* 1065-1069).  What parseLogAndPopulateBoard does is left out.
parseLogWithBackend_failed(r) ==
    /\ run[r].pc = "parse"
    /\ UNCHANGED <<runSame, wst, returned>>
    /\ \E log \in {logLine(LOG_LINES, Str("Backend parsing failed: ") \o BackendMessage)} :
          Goto(r, [IdleRun EXCEPT !.runs = run[r].runs + 1],
               logLine(logLines(log, report(log)),
                       Str("Falling back to client-side parsing...")))

\* ----------------------------------------------------------------- Spec
Next ==
    \/ \E c \in Callers : connectToPort(c)
    \/ \E c \in Callers : connectToPort_disconnected(c)
    \/ \E c \in Callers : connectToPort_requested(c)
    \/ \E c \in Callers : connectToPort_closedFirst(c)
    \/ \E c \in Callers : connectToPort_opened(c)
    \/ \E c \in Callers : connectToPort_settled(c)
    \/ \E c \in Callers : disconnectPort_cancel(c)
    \/ \E c \in Callers : disconnectPort_readableClosed(c)
    \/ \E c \in Callers : disconnectPort_writerClose(c)
    \/ \E c \in Callers : disconnectPort_writableClosed(c)
    \/ \E c \in Callers : disconnectPort_portClose(c)
    \/ \E c \in Callers : performCLIHandshake_probe(c)
    \/ \E c \in Callers : performCLIHandshake_checked(c)
    \/ \E c \in Callers : performCLIHandshake_signalled(c)
    \/ \E h \in Streams : readLoop_chunk(h)
    \/ \E h \in Streams : readLoop_exit(h)

Spec == Init /\ [][Next]_vars

\* ------------------------------------------------------------- SpecPipe
\* The stream pipeline on its own: one caller has connected to port 1 and the
\* device sends any chunk stream of at most MaxText characters, or the stream
\* of the worked example; the caller may connect again while it arrives.
Alphabet == {"a", CR, LF}

Chunks(n) == UNION {[1..k -> Alphabet] : k \in 1..n}

RECURSIVE ChunkStreams(_)
ChunkStreams(n) ==
    {<<>>} \cup UNION {{<<v>> \o rest : rest \in ChunkStreams(n - Len(v))} : v \in Chunks(n)}

ExampleStream == << <<"a", "b">>, <<"c", "d", LF>>, <<"e", "f", LF, "g", "h", LF>> >>

\* The state in which a connectToPort is connected to port 1 before the device
\* has sent anything, with transcript log: the call of "A" has returned (221)
\* when where is "idle", and is at that await of performCLIHandshake otherwise;
\* the calls made before it were cancelled in the port dialog (158-159), so
\* that one further call can be made.
ConnectedAt(log, where) ==
    /\ LOG_LINES = log /\ lineBuffer = <<>> /\ received = <<>> /\ fresh = <<>>
    /\ port = 1 /\ isConnecting = FALSE
    /\ reader = 1 /\ writer = 1 /\ textDecoder = 1 /\ textEncoder = 1
    /\ readableStreamClosed = 1 /\ writableStreamClosed = 1
    /\ portSess = [p \in Ports |-> IF p = 1 THEN 1 ELSE NULL] /\ nSess = 1
    /\ attachR = [i \in Streams |-> IF i = 1 THEN 1 ELSE NULL]
    /\ attachW = [i \in Streams |-> IF i = 1 THEN 1 ELSE NULL]
    /\ rst = [i \in Streams |-> IF i = 1 THEN "live" ELSE "none"]
    /\ wst = [i \in Streams |-> IF i = 1 THEN "open" ELSE "none"]
    /\ nStreams = 1 /\ loops = [i \in Streams |-> IF i = 1 THEN 1 ELSE 0]
    /\ pc = [c \in Callers |-> IF c = "A" THEN where ELSE "idle"]
    /\ selectedPort = [c \in Callers |-> NULL]
    /\ awaited = [c \in Callers |-> IF c = "A" /\ where # "idle" THEN 1 ELSE NULL]
    /\ ncalls = MaxCalls - 1
    /\ dpTrace = [c \in Callers |-> <<>>]
    /\ oldSess = [c \in Callers |-> NULL]
    /\ mySess = [c \in Callers |-> NULL]
    /\ settleQ = <<>> /\ earlyWrites = {}
    /\ calls = <<>>
    /\ returned = [r \in Runs |-> "none"]

\* ... the call having returned.
ConnectedWith(log) == ConnectedAt(log, "idle")

ConnectedPort == ConnectedWith(<<>>)

\* ------------------------------------ performCLIHandshake and the transcript
\* The lines performCLIHandshake logs (463, 468, 486-492); "[ok]", "[i]" and
\* "[!]" stand for the signs the source puts in front of some of them, and '
\* for the double quotes around a response.
WakeUpLine == Str("Sending wake-up sequence...")
ProbeLine == Str("Testing CLI responsiveness with probe commands...")

\* line.startsWith('>') (482).
startsWith(line, c) == line # <<>> /\ line[1] = c

\* The test of the filter of 479-483 on a line.
isResponsive(line) ==
    \/ includes(line, Str("Token:")) \/ includes(line, <<"$">>)
    \/ includes(line, Str("Selected")) \/ includes(line, Str("MUX"))
    \/ includes(line, Str("help")) \/ includes(line, Str("version"))
    \/ (Len(trim(line)) > 0 /\ ~startsWith(line, ">"))

\* newLines.filter(...) (479-483).
responsiveLines(newLines) == SelectSeq(newLines, isResponsive)

\* beforeLength (460) of the handshake in progress: the wake-up line is logged
\* right after it is taken (463), so it is the place before the latest such
\* line of the transcript, which nothing empties during a handshake here.
beforeLength(log) ==
    LET wake == {i \in DOMAIN log : log[i] = WakeUpLine}
    IN  IF wake = {} THEN Len(log) ELSE (CHOOSE i \in wake : \A j \in wake : j <= i) - 1

\* What the handshake logs when lines count as responses (486-488).
RespondingLines(lines) ==
    << Str("[ok] Device is responding! Got ") \o Num(Len(lines)) \o Str(" response lines") >>
    \o [i \in 1..(IF Len(lines) < 3 THEN Len(lines) ELSE 3) |->
            Str("[i] Response: '") \o lines[i] \o <<"'">>]

\* What it logs when none does (490-494).
NotRespondingLines ==
    <<Str("[!] Device not responding to probe commands"),
      Str("This may indicate firmware issues or wrong port"),
      Str("Attempting to wake device with DTR/RTS toggle...")>>

\* await writer.write(...) of the wake-up or of the help probe settles and the
\* pause after it elapses (464-475), the transcript being followed: after the
\* wake-up the probes are announced (468); the next probe is written, or the
\* write rejects.
performCLIHandshake_probed(c) ==
    /\ pc[c] \in DOMAIN HsAfterWrite
    /\ UNCHANGED <<strmVars, lineBuffer, input, received, fresh, envVars, ncalls, dpTrace,
                   settleQ, scVars>>
    /\ \E ok \in BOOLEAN :
         IF ok
         THEN /\ WriterLive(awaited[c])
              /\ LOG_LINES' = IF pc[c] = "hs_w1" THEN logLine(LOG_LINES, ProbeLine)
                                                 ELSE LOG_LINES
              /\ HsWrite(c, HsAfterWrite[pc[c]], isConnecting)
         ELSE /\ WriteMayFail(awaited[c])
              /\ ConnCatch(c)
              /\ UNCHANGED <<LOG_LINES, earlyWrites>>

\* await writer.write('ver') settles and the last pause elapses (475-497): the
\* lines logged since the handshake began are examined and the outcome is
\* logged; with no response the signals of the port are toggled next.
performCLIHandshake_examined(c) ==
    /\ pc[c] = "hs_w3"
    /\ UNCHANGED <<strmVars, lineBuffer, input, received, fresh, envVars, ncalls, dpTrace,
                   obsVars, scVars>>
    /\ \E ok \in BOOLEAN :
         IF ok
         THEN /\ WriterLive(awaited[c])
              /\ \E found \in {responsiveLines(SubSeq(LOG_LINES, beforeLength(LOG_LINES) + 1,
                                                       Len(LOG_LINES)))} :
                    IF Len(found) > 0
                    THEN /\ LOG_LINES' = logLines(LOG_LINES, RespondingLines(found))
                         /\ ConnReturn(c)
                    ELSE /\ LOG_LINES' = logLines(LOG_LINES, NotRespondingLines)
                         /\ IF port = NULL
                            THEN ConnReturn(c)
                            ELSE /\ pc' = [pc EXCEPT ![c] = "hs_s1"]
                                 /\ UNCHANGED hsSame
         ELSE /\ WriteMayFail(awaited[c])
              /\ ConnCatch(c)
              /\ UNCHANGED LOG_LINES


\* ... with neither the scan nor the diagnostic run started yet.
Connected == ConnectedPort /\ run = [r \in Runs |-> IdleRun]

InitPipe == Connected /\ input \in ChunkStreams(MaxText) \cup {ExampleStream}

NextPipe ==
    \/ connectToPort("A")
    \/ connectToPort_disconnected("A")
    \/ connectToPort_requested("A")
    \/ connectToPort_closedFirst("A")
    \/ connectToPort_opened("A")
    \/ connectToPort_settled("A")
    \/ disconnectPort_cancel("A")
    \/ disconnectPort_readableClosed("A")
    \/ disconnectPort_writerClose("A")
    \/ disconnectPort_writableClosed("A")
    \/ disconnectPort_portClose("A")
    \/ performCLIHandshake_probe("A")
    \/ performCLIHandshake_checked("A")
    \/ performCLIHandshake_signalled("A")
    \/ \E h \in Streams : readLoop_chunk(h)
    \/ \E h \in Streams : readLoop_exit(h)

SpecPipe == InitPipe /\ [][NextPipe]_vars

\* ------------------------------------------------------------- SpecCmd
\* The first MaxCmds commands of a scan and of a diagnostic run beside one
\* further connectToPort, on a port whose device stays silent.
InitCmd == Connected /\ input = <<>>

Within(A) == A /\ Len(calls') <= MaxCmds

NextCmd ==
    \/ connectToPort("A")
    \/ connectToPort_disconnected("A")
    \/ connectToPort_requested("A")
    \/ connectToPort_closedFirst("A")
    \/ connectToPort_opened("A")
    \/ connectToPort_settled("A")
    \/ disconnectPort_cancel("A")
    \/ disconnectPort_readableClosed("A")
    \/ disconnectPort_writerClose("A")
    \/ disconnectPort_writableClosed("A")
    \/ disconnectPort_portClose("A")
    \/ performCLIHandshake_probe("A")
    \/ performCLIHandshake_checked("A")
    \/ performCLIHandshake_signalled("A")
    \/ \E h \in Streams : readLoop_exit(h)
    \/ Within(readBoardConfiguration)
    \/ Within(diagnoseBoardEEPROMs)
    \/ \E r \in Runs : Within(sendCommand_written(r))
    \/ \E r \in Runs : Within(sendCommand_returned(r))
    \/ Within(waitForCompleteResponse_poll("diag"))

SpecCmd == InitCmd /\ [][NextCmd]_vars

\* ================================================================ claims
InFlight(c) == pc[c] # "idle"
DpPcs == {"dp_cancel", "dp_rclosed", "dp_wclose", "dp_wclosed", "dp_pclose"}
OpenPorts == {p \in Ports : portSess[p] # NULL}

\* C1: a connectToPort call that starts while another call is in flight (at any of
\* its awaits) returns at once as busy: it starts no await of its own, calls
\* close() or open() on no port and leaves port, reader and writer unchanged.
C1_SecondCallIsBusy ==
    [][(ncalls' = ncalls + 1 /\ \E d \in Callers : InFlight(d))
         => (pc' = pc /\ port' = port /\ reader' = reader /\ writer' = writer
             /\ portSess' = portSess)]_vars

\* C2: in every reachable state at most one serial port is open, and an open
\* port is the one the module variable port refers to.
C2_AtMostOneOpenPort ==
    /\ Cardinality(OpenPorts) <= 1
    /\ \A p \in OpenPorts : port = p

\* C3: whenever a connectToPort call that passed the busy check returns,
\* isConnecting is false.
C3_FlagClearOnReturn ==
    [][\A c \in Callers : (InFlight(c) /\ pc'[c] = "idle") => isConnecting' = FALSE]_vars

\* C4: a disconnectPort whose reader.cancel() raised has, by the time it returns,
\* still called writer.close() and then port.close().
C4_TeardownIsBestEffort ==
    \A c \in Callers :
        (/\ pc[c] = "dp_done"
         /\ Len(dpTrace[c]) >= 2
         /\ dpTrace[c][1] = "cancel" /\ dpTrace[c][2] = "error-logged")
        => \E i, j \in DOMAIN dpTrace[c] :
              i < j /\ dpTrace[c][i] = "wclose" /\ dpTrace[c][j] = "pclose"

\* C5: nothing is written to a transport before the settle delay that follows
\* its open() has elapsed.
C5_NoWriteBeforeSettle == earlyWrites = {}

\* C6: when connectToPort was called with a transport open, that transport's port
\* is closed by the time open() is invoked for the new transport.
C6_OldClosedBeforeOpen ==
    \A c \in Callers :
        (pc[c] = "open" /\ oldSess[c] # NULL) => ~SessOpen(oldSess[c])

\* C7: disconnectPort never raises (from any of its awaits control stays inside
\* it until it returns to the await of its caller); it returns with
\* port = null and isConnecting = false, having either closed the port or
\* logged the error of the teardown step that failed.
C7_DisconnectNeverRaises ==
    [][\A c \in Callers :
         /\ (pc[c] \in DpPcs /\ pc'[c] # pc[c]) => pc'[c] \in DpPcs \cup {"dp_done"}
         /\ (pc[c] # "dp_done" /\ pc'[c] = "dp_done")
              => /\ port' = NULL /\ isConnecting' = FALSE
                 /\ dpTrace'[c][Len(dpTrace'[c])] \in {"closed", "error-logged"}]_vars

\* C7 witness: a disconnectPort has returned after a teardown step failed.
C7_Witness ==
    \E c \in Callers :
        /\ pc[c] = "dp_done" /\ port = NULL /\ ~isConnecting
        /\ dpTrace[c][Len(dpTrace[c])] = "error-logged"

\* ------------------------------------------------ claims about the pipeline
\* The concatenation of a sequence of texts.
RECURSIVE Text(_)
Text(chunks) == IF chunks = <<>> THEN <<>> ELSE Head(chunks) \o Text(Tail(chunks))

Chars(s) == {s[i] : i \in DOMAIN s}
LFs(t) == {i \in 1..Len(t) : t[i] = LF}
NthLF(t, k) == CHOOSE i \in LFs(t) : Cardinality({j \in LFs(t) : j <= i}) = k

\* The text after the last line terminator of t.
AfterLastLF(t) ==
    SubSeq(t, (IF LFs(t) = {} THEN 0 ELSE NthLF(t, Cardinality(LFs(t)))) + 1, Len(t))

\* The k-th terminated line of t, without its terminator (LF or CR LF).
LineAt(t, k) ==
    LET from == IF k = 1 THEN 1 ELSE NthLF(t, k - 1) + 1
        lf   == NthLF(t, k)
    IN  SubSeq(t, from, IF lf > from /\ t[lf - 1] = CR THEN lf - 2 ELSE lf - 1)

\* s without its leading and trailing blank characters.
Stripped(s) ==
    LET ink == {i \in 1..Len(s) : s[i] \notin {" ", "\t", CR, LF}}
    IN  IF ink = {} THEN <<>>
        ELSE SubSeq(s, CHOOSE i \in ink : \A j \in ink : i <= j,
                       CHOOSE i \in ink : \A j \in ink : j <= i)

NonBlank(line) == line # <<>>

\* The stripped, non-blank terminated lines of t, in order.
StrippedLines(t) ==
    SelectSeq([k \in 1..Cardinality(LFs(t)) |-> Stripped(LineAt(t, k))], NonBlank)

\* No handshake has emptied lineBuffer since the first chunk arrived.
Undisturbed == fresh = Text(received)

\* C8 as stated: for the chunks processed by readLoop, the emitted lines
\* concatenated, followed by the residual lineBuffer, equal the concatenation of
\* the chunks, and no emitted line contains a line terminator.
C8_ConcatenationPreserved ==
    Undisturbed =>
        /\ Text(LOG_LINES) \o lineBuffer = Text(received)
        /\ \A i \in DOMAIN LOG_LINES : LF \notin Chars(LOG_LINES[i])

\* C8 amended: for the chunks processed by readLoop with no handshake in between,
\* the emitted lines are, in order, the stripped non-blank lines of the
\* concatenation of the chunks, the residual lineBuffer is the text after its
\* last terminator, and no emitted line contains a line terminator.
C8_LinesOfConcatenation ==
    Undisturbed =>
        /\ LOG_LINES = StrippedLines(Text(received))
        /\ lineBuffer = AfterLastLF(Text(received))
        /\ \A i \in DOMAIN LOG_LINES : LF \notin Chars(LOG_LINES[i])

\* C8 witness: two or more chunks have been processed, a line was emitted and a
\* fragment is held, and terminators or blanks have been dropped.
C8_Witness ==
    /\ Undisturbed /\ Len(received) >= 2
    /\ LOG_LINES # <<>> /\ lineBuffer # <<>>
    /\ Text(LOG_LINES) \o lineBuffer # Text(received)

\* A step in which readLoop processes a chunk, and that chunk.
ChunkStep == Len(received') = Len(received) + 1
Chunk == received'[Len(received')]

\* What C9 says of a chunk with no line terminator.
C9_Grows ==
    (ChunkStep /\ LF \notin Chars(Chunk))
        => (LOG_LINES' = LOG_LINES /\ lineBuffer' = lineBuffer \o Chunk)

\* C9 as stated: a chunk with no line terminator appends no line and sets
\* lineBuffer to its previous value followed by the chunk; in every state
\* lineBuffer is the text received since the last terminator.
C9_FragmentSinceTerminator ==
    [][/\ C9_Grows
       /\ lineBuffer = AfterLastLF(Text(received))
       /\ lineBuffer' = AfterLastLF(Text(received'))]_vars

\* C9 amended: a chunk with no line terminator appends no line and sets
\* lineBuffer to its previous value followed by the chunk; in every state
\* lineBuffer is the text received since the last terminator or since
\* performCLIHandshake last emptied lineBuffer, whichever came later.
C9_FragmentSinceTerminatorOrHandshake ==
    [][/\ C9_Grows
       /\ lineBuffer = AfterLastLF(fresh)
       /\ lineBuffer' = AfterLastLF(fresh')]_vars

\* C9 witness: a handshake emptied lineBuffer while a fragment was pending, and
\* a chunk with no terminator has grown the fragment since.
C9_Witness ==
    /\ fresh # <<>> /\ lineBuffer = fresh
    /\ AfterLastLF(Text(received)) # lineBuffer

Line_abcd == <<"a", "b", "c", "d">>
Line_ef   == <<"e", "f">>
Line_gh   == <<"g", "h">>

\* C10 as stated: the stream ["ab", "cd\n", "ef\ngh\n"], from an empty residual,
\* makes readLoop emit exactly ["abcd", "ef"] and hold "gh" as the residual.
C10_HoldsLastLine ==
    (Undisturbed /\ received = ExampleStream)
        => (LOG_LINES = <<Line_abcd, Line_ef>> /\ lineBuffer = Line_gh)

\* C10 amended: the stream ["ab", "cd\n", "ef\ngh\n"], from an empty residual and
\* with no handshake in between, makes readLoop hold "ab" after the first chunk,
\* emit ["abcd"] and hold nothing after the second, and have emitted exactly
\* ["abcd", "ef", "gh"], in that order, with an empty residual after the third.
C10_EmitsEveryTerminatedLine ==
    (Undisturbed /\ received # <<>> /\ received \o input = ExampleStream)
        => CASE Len(received) = 1 -> LOG_LINES = <<>> /\ lineBuffer = <<"a", "b">>
             [] Len(received) = 2 -> LOG_LINES = <<Line_abcd>> /\ lineBuffer = <<>>
             [] OTHER -> /\ LOG_LINES = <<Line_abcd, Line_ef, Line_gh>>
                         /\ lineBuffer = <<>>

\* C10 witness: the whole example stream has been processed.
C10_Witness ==
    /\ Undisturbed /\ received = ExampleStream
    /\ LOG_LINES = <<Line_abcd, Line_ef, Line_gh>> /\ lineBuffer = <<>>


\* ------------------------------------------------------------ SpecScan
\* A whole scan on the connected port.  The device stays silent, or answers once
\* while the scan is within its first MaxBusy commands: with three rows of a hex
\* dump and a prompt, or with a complaint.
HexRow(address) ==
    Str(address) \o Str(": 50 52 4f 4d 4f 54 45 52 |") \o <<LF>>

HexRows == HexRow("00") \o HexRow("08") \o HexRow("10") \o <<">", LF>>

Complaint == Str("fail") \o <<CR, LF>>

Scripts == {<<>>, <<HexRows>>, <<Complaint>>}

InitScan == Connected /\ input \in Scripts

NextScan ==
    \/ readBoardConfiguration
    \/ sendCommand_written("scan")
    \/ waitForPrompt_poll("scan")
    \/ readBoardConfiguration_timer
    \/ parseLogWithBackend_done("scan")
    \/ \E h \in Streams : Len(calls) <= MaxBusy /\ readLoop_chunk(h)

SpecScan == InitScan /\ [][NextScan]_vars

\* ------------------------------------------------------------ SpecLive
\* Either a whole scan or a whole diagnostic run on the connected port, the
\* other one not being started, under the scheduling the browser gives: a write
\* to an open transport settles, a timer fires, and a wait whose timeout has
\* elapsed resolves at its next check.
NotStarted == [IdleRun EXCEPT !.runs = MaxRuns]

InitLive ==
    /\ ConnectedPort
    /\ \E only \in Runs : run = [r \in Runs |-> IF r = only THEN IdleRun ELSE NotStarted]
    /\ input \in {<<>>, <<HexRows>>}

NextLive ==
    \/ readBoardConfiguration
    \/ diagnoseBoardEEPROMs
    \/ \E r \in Runs : sendCommand_written(r)
    \/ waitForPrompt_poll("scan")
    \/ waitForCompleteResponse_poll("diag")
    \/ readBoardConfiguration_timer
    \/ \E r \in Runs : parseLogWithBackend_done(r)
    \/ \E h \in Streams : Len(calls) <= MaxBusy /\ readLoop_chunk(h)

\* The check of waitForCompleteResponse at which it resolves.
waitForCompleteResponse_resolved(r) ==
    waitForCompleteResponse_poll(r) /\ run'[r].pc # "wait"

Scheduling ==
    /\ \A r \in Runs : WF_vars(sendCommand_written(r))
    /\ WF_vars(waitForPrompt_poll("scan"))
    /\ WF_vars(waitForCompleteResponse_resolved("diag"))
    /\ WF_vars(readBoardConfiguration_timer)

SpecLive == InitLive /\ [][NextLive]_vars /\ Scheduling

\* --------------------------------------------------------- SpecAnalyze
\* analyzeScanFailure on the transcripts of at most MaxLines lines made of the
\* lines below: the echo of a select, the heading a scan logs for a channel, the
\* acknowledgement of a selection, the echo of a dump as the analysis expects it
\* and as the scan sends it, a row of a hex dump, and a complaint.
Vocabulary ==
    {Str("> sm a 0"),
     <<LF>> \o Str("--- MUX A, Channel 0 ---"),
     Str("Selected MUX B, Channel 12"),
     Str("> hd 16"),
     Str("> hd 0 16"),
     Str("00: 50 52 4f 4d 4f 54 45 52 |"),
     Str("fail")}

Transcripts(n) == UNION {[1..k -> Vocabulary] : k \in 0..n}

InitAnalyze == \E log \in Transcripts(MaxLines) : ConnectedWith(log) /\ input = <<>>
                  /\ run = [r \in Runs |-> IdleRun]

NextAnalyze == analyzeScanFailure

SpecAnalyze == InitAnalyze /\ [][NextAnalyze]_vars

\* ------------------------------------------------------ claims on commands
NotConnectedLine == Str("Error: Not connected to any port.")

\* The step is a call of sendCommand by run r.
Called(r) ==
    /\ Len(calls') = Len(calls) + 1
    /\ calls'[Len(calls')].run = r

\* The transcript a step of run r builds on: a run empties it as it starts.
Base(r) == IF run[r].pc = "idle" THEN <<>> ELSE LOG_LINES

\* The step is the fulfilment of the write run r awaits inside sendCommand.
Fulfilled(r) ==
    /\ run[r].pc = "sc_w" /\ run'[r] # run[r]
    /\ WriterLive(run[r].awaited) /\ wst' = wst

\* C11: sendCommand called while port or writer is null writes to no transport,
\* appends exactly one error line to the transcript and returns false; and when
\* the write of a sendCommand called on an open transport is fulfilled, exactly
\* one echo line "> <command>" is appended and it returns true.
C11_SendCommandContract ==
    [][\A r \in Runs :
        /\ (Called(r) /\ (port = NULL \/ writer = NULL))
              => /\ calls'[Len(calls')].to = NULL
                 /\ earlyWrites' = earlyWrites
                 /\ LOG_LINES'[Len(LOG_LINES')] = NotConnectedLine
                 /\ Count(LOG_LINES', NotConnectedLine)
                        = Count(Base(r), NotConnectedLine) + 1
                 /\ run'[r].pc = "sc_ret"
        /\ (run[r].pc = "sc_ret" /\ run'[r] # run[r]) => returned'[r] = "false"
        /\ Fulfilled(r)
              => /\ returned'[r] = "true"
                 /\ LOG_LINES'[Len(LOG_LINES) + 1] = Str("> ") \o run[r].cmd
                 /\ Count(LOG_LINES', Str("> ") \o run[r].cmd)
                        = Count(LOG_LINES, Str("> ") \o run[r].cmd) + 1
      ]_vars

\* C11 witness: the diagnostic run has had a command echoed, and after the port
\* was closed under it a later sendCommand of it has returned false, nothing
\* written, with the error line in the transcript.
C11_Witness ==
    /\ port = NULL
    /\ returned["diag"] = "false"
    /\ Len(calls) >= 2
    /\ calls[1].run = "diag" /\ calls[1].to # NULL
    /\ calls[Len(calls)].run = "diag" /\ calls[Len(calls)].to = NULL
    /\ Count(LOG_LINES, Str("> ") \o calls[1].cmd) = 1
    /\ Count(LOG_LINES, NotConnectedLine) = 1


\* The readLoop of the current reader has exited on a read error.
ReadLoopDied == reader # NULL /\ rst[reader] = "errored" /\ loops[reader] = 0

\* C13: after readLoop has exited because reader.read() raised an error, a
\* sendCommand call writes to no transport and returns false.
C13_SendsFailAfterReadError ==
    [][\A r \in Runs :
        (Called(r) /\ ReadLoopDied)
            => calls'[Len(calls')].to = NULL /\ run'[r].pc = "sc_ret"
      ]_vars


\* The writer on which run r has a command in flight, or NULL: the command has
\* been handed to writer.write and, unless the write was rejected, the wait that
\* follows it has not completed.
CmdInFlight(r) ==
    IF run[r].pc = "sc_w" \/ (run[r].pc = "wait" /\ returned[r] = "true")
    THEN run[r].awaited ELSE NULL

\* The same for the handshake of the connectToPort of caller c.
HsInFlight(c) == IF pc[c] \in {"hs_w1", "hs_w2", "hs_w3"} THEN awaited[c] ELSE NULL

\* C17: no two of the handshake, the scan and the diagnostic run have a command
\* in flight on the same writer at the same time.
C17_OneCommandInFlight ==
    /\ CmdInFlight("scan") # NULL => CmdInFlight("scan") # CmdInFlight("diag")
    /\ \A r \in Runs, c \in Callers : CmdInFlight(r) # NULL => CmdInFlight(r) # HsInFlight(c)


\* ------------------------------------------------------ claims on readLoop
\* The number of readLoop invocations awaiting a read on stream pairs 1..n.
RECURSIVE ActiveLoops(_)
ActiveLoops(n) == IF n = 0 THEN 0 ELSE loops[n] + ActiveLoops(n - 1)

\* C18: at most one readLoop invocation is active at any time.
C18_OneReadLoop == ActiveLoops(MaxCalls) <= 1


\* -------------------------------------------------------- claims on the scan
\* The step is the rejection of the write run r awaits inside sendCommand.
Rejected(r) ==
    /\ run[r].pc = "sc_w" /\ run'[r] # run[r]
    /\ ~(WriterLive(run[r].awaited) /\ wst' = wst)

WriteErrorLine == Str("Write error: ") \o WriteErrorMessage

\* C12: when the write of a command of the scan is rejected, sendCommand returns
\* false and the sweep is not unwound: after a select the scan is at the select
\* of the next channel (at the hand-off to the parser after the last one), after
\* a buffer read or a hex dump it goes on with the same channel; and the scan
\* ends only through the hand-off to the parser.
C12_WriteFailureKeepsSweep ==
    [][LET now == run["scan"]
           next == run'["scan"]
       IN  /\ Rejected("scan")
                => /\ returned'["scan"] = "false"
                   /\ now.site = "select"
                        => IF now.ch < Len(scanChannels)
                           THEN /\ next.pc = "sc_w" /\ next.site = "select"
                                /\ next.ch = now.ch + 1
                           ELSE next.pc = "parse"
                   /\ now.site \in {"er", "hd1", "hd2"}
                        => next.pc = "wait" /\ next.ch = now.ch
           /\ (now.pc # "idle" /\ next.pc = "idle") => now.pc = "parse"
      ]_vars

\* C12 witness: a scan has reached the hand-off to the parser although the write
\* of a buffer read was rejected on the way.
C12_Witness ==
    /\ run["scan"].pc = "parse"
    /\ \E i \in 1..(Len(LOG_LINES) - 1) :
          /\ LOG_LINES[i] = Str("Reading EEPROM data into buffer...")
          /\ LOG_LINES[i + 1] = WriteErrorLine


\* The select command of the n-th coordinate in the order a0..a15, b0..b15.
ExpectedSelect(n) ==
    Str("sm ") \o <<IF n <= 16 THEN "a" ELSE "b">> \o <<" ">> \o Num((n - 1) % 16)

IsScanSelect(call) == call.run = "scan" /\ SubSeq(call.cmd, 1, 3) = Str("sm ")

\* The sendCommand invocations of scans that carried a select command.
ScanSelects == SelectSeq(calls, IsScanSelect)

\* A line of the transcript tells that a channel was abandoned.
Skipped(line) == includes(line, Str(" - MUX selection failed"))

\* C14: the selects a scan has attempted are, in order, those of a0..a15 then
\* b0..b15, each once; a scan that has reached the hand-off to the parser has
\* attempted all 32 of them, whatever timed out, was abandoned or failed to write.
C14_EveryChannelSelectedOnce ==
    LET done == run["scan"].runs
        sel == ScanSelects
        n == Len(sel)
    IN  /\ \A i \in 1..n : sel[i].cmd = ExpectedSelect(((i - 1) % 32) + 1)
        /\ n <= 32 * (done + 1)
        /\ run["scan"].pc = "parse" => n = 32 * (done + 1)
        /\ run["scan"].pc = "idle" => n = 32 * done

\* C14 witness: a scan has reached the hand-off to the parser after 32 selects,
\* one channel having been abandoned for a select failure and one select not
\* having been written.
C14_Witness ==
    /\ run["scan"].pc = "parse"
    /\ Len(ScanSelects) = 32
    /\ \E i \in DOMAIN LOG_LINES : Skipped(LOG_LINES[i])
    /\ \E i \in 1..(Len(LOG_LINES) - 1) :
          /\ Len(LOG_LINES[i]) > 9
          /\ SubSeq(LOG_LINES[i], 1, 9) = <<LF>> \o Str("--- MUX ")
          /\ LOG_LINES[i + 1] = WriteErrorLine


HexDump == Str("hd 0 16")

\* How many of the latest invocations in cs, back to the latest select of a
\* scan, are hex dumps of a scan.
RECURSIVE DumpsOfChannel(_)
DumpsOfChannel(cs) ==
    IF cs = <<>> \/ IsScanSelect(cs[Len(cs)]) THEN 0
    ELSE (IF cs[Len(cs)].run = "scan" /\ cs[Len(cs)].cmd = HexDump THEN 1 ELSE 0)
            + DumpsOfChannel(SubSeq(cs, 1, Len(cs) - 1))

\* C15: in a scan the hex dump of a channel is sent at most twice; the second
\* is sent exactly when the transcript holds no more hex rows at the end of the
\* first dump's wait than when the first was sent, and after the second the
\* scan leaves the channel; a retry whose wait gains 3 hex rows leaves them in
\* the transcript, that channel having had two dumps.
C15_RetryAtMostOnce ==
    [][LET now == run["scan"]
           next == run'["scan"]
           rows == hexLineCount(LOG_LINES)
           waited == now.pc = "wait" /\ next # now
       IN  /\ DumpsOfChannel(calls') <= 2
           /\ (Called("scan") /\ calls'[Len(calls')].cmd = HexDump)
                => \/ next.site = "hd1" /\ next.before = rows /\ DumpsOfChannel(calls') = 1
                   \/ /\ next.site = "hd2" /\ DumpsOfChannel(calls') = 2
                      /\ now.pc = "timer" /\ now.site = "retry"
           /\ (waited /\ now.site = "hd1")
                => /\ next.pc = "timer" /\ next.ch = now.ch
                   /\ next.site = IF rows = now.before THEN "retry" ELSE "settle"
           /\ (waited /\ now.site = "hd2")
                => /\ next.ch = now.ch + 1 \/ next.pc = "parse"
                   /\ LOG_LINES' = LOG_LINES
                        \/ LOG_LINES'[Len(LOG_LINES) + 1] # Str("First attempt failed, retrying...")
                   /\ rows = now.before + 3
                        => /\ DumpsOfChannel(calls) = 2
                           /\ hexLineCount(LOG_LINES') = now.before + 3
      ]_vars

HexLine(address) == Str(address) \o Str(": 50 52 4f 4d 4f 54 45 52 |")

\* C15 witness: a finished scan whose transcript shows, for channel a0, a first
\* dump that gained nothing, one retry, and the three hex rows the retry gained.
C15_Witness ==
    /\ run["scan"].pc = "parse"
    /\ \E i \in 1..Len(LOG_LINES) :
          /\ i + 10 <= Len(LOG_LINES)
          /\ SubSeq(LOG_LINES, i, i + 10)
               = << <<LF>> \o Str("--- MUX A, Channel 0 ---"),
                    Str("> sm a 0"),
                    Str("Reading EEPROM data into buffer..."),
                    Str("> er 0 64"),
                    Str("> hd 0 16"),
                    Str("First attempt failed, retrying..."),
                    Str("> hd 0 16"),
                    HexLine("00"), HexLine("08"), HexLine("10"),
                    <<">">> >>
    /\ hexLineCount(LOG_LINES) = 3


\* --------------------------------------------------- claims on the waits
\* C16: every wait of a scan or of a diagnostic run resolves, and a scan that
\* has started reaches the hand-off to the parser.
C16_WaitsResolve ==
    /\ \A r \in Runs : (run[r].pc = "wait") ~> (run[r].pc # "wait")
    /\ (run["scan"].pc # "idle") ~> (run["scan"].pc = "parse")

\* C16 witness: a scan has reached the hand-off to the parser with every write
\* fulfilled and the device silent throughout, so every wait timed out.
C16_Witness ==
    /\ run["scan"].pc = "parse"
    /\ received = <<>> /\ input = <<>>
    /\ returned["scan"] = "true"
    /\ Count(LOG_LINES, WriteErrorLine) = 0


\* ------------------------------------------------- claims on the analysis
\* The lines of log in which a selection is acknowledged.
Acknowledgements(log) == {i \in DOMAIN log : isMuxSelected(log[i])}

\* The dumps of log that count as successful: a dump command with a hex row
\* after it and no other dump command in between.
SuccessfulDumps(log) ==
    {i \in DOMAIN log :
        /\ isHexDump(log[i])
        /\ \E j \in DOMAIN log :
              /\ j >= i /\ isHexRow(log[j])
              /\ \A k \in (i + 1)..j : ~isHexDump(log[k])}

\* The step is an analysis of the transcript.
Analyzed ==
    /\ Len(LOG_LINES') > Len(LOG_LINES)
    /\ LOG_LINES'[Len(LOG_LINES) + 1] = AnalysisHeader

\* The first line of the diagnosis an analysis step has logged.
Verdict == LOG_LINES'[Len(LOG_LINES) + 7]

\* C19: a transcript with at least one selection acknowledged and no dump that
\* counts as successful is given the diagnosis "No EEPROMs are responding".
C19_NoDeviceResponse ==
    [][(/\ Analyzed
        /\ Acknowledgements(LOG_LINES) # {}
        /\ SuccessfulDumps(LOG_LINES) = {})
          => /\ Verdict = NoEEPROMs[1]
             /\ SubSeq(LOG_LINES', Len(LOG_LINES) + 7, Len(LOG_LINES')) = NoEEPROMs
      ]_vars

\* C19 witness: the analysis of a transcript with an acknowledged selection and
\* a dump command followed by no hex row has given "No EEPROMs are responding".
C19_Witness ==
    /\ Len(LOG_LINES) > 3
    /\ LOG_LINES[1] = Str("Selected MUX B, Channel 12")
    /\ LOG_LINES[2] = Str("> hd 16")
    /\ LOG_LINES[3] = AnalysisHeader
    /\ LOG_LINES[9] = NoEEPROMs[1]

\* C20: a transcript with no selection acknowledged is given the diagnosis
\* "No hardware communication detected", whatever else it contains.
C20_NoHardwareDetected ==
    [][(Analyzed /\ Acknowledgements(LOG_LINES) = {}) => Verdict = NoHardware[1]]_vars

\* The classification a first line of a diagnosis stands for; the source has
\* three diagnoses and none for a transcript without fault.
Classification(line) ==
    IF line = NoHardware[1] THEN "NoHardwareDetected"
    ELSE IF line = NoEEPROMs[1] THEN "NoDeviceResponse"
    ELSE IF line = PartialIssue[1] THEN "PartialOrIntermittent"
    ELSE "none"

\* The lines of log that echo a select command, and those that echo a dump.
Selects(log) == {i \in DOMAIN log : isMuxCommand(log[i])}
Dumps(log) == {i \in DOMAIN log : isHexDump(log[i])}

\* Every select of log is acknowledged before the next select, at least one
\* select being there.
EverySelectAcknowledged(log) ==
    /\ Selects(log) # {}
    /\ \A i \in Selects(log) :
          \E j \in Acknowledgements(log) :
              j > i /\ \A k \in (i + 1)..j : k \notin Selects(log)

\* Every dump of log produced at least one hex row, at least one dump being there.
EveryDumpHasData(log) == Dumps(log) # {} /\ Dumps(log) = SuccessfulDumps(log)

\* C21: every analysis gives the transcript exactly one of the four
\* classifications, and a transcript in which every select is acknowledged and
\* every dump produced at least one hex row is classified Healthy.
C21_HealthyWhenAllSucceed ==
    [][Analyzed =>
        /\ Classification(Verdict) \in {"NoHardwareDetected", "NoDeviceResponse",
                                        "PartialOrIntermittent", "Healthy"}
        /\ (EverySelectAcknowledged(LOG_LINES) /\ EveryDumpHasData(LOG_LINES))
              => Classification(Verdict) = "Healthy"
      ]_vars

\* ----------------------------------------------------------- SpecRerun
\* analyzeScanFailure under any state of the connection: the transcript holds at
\* most MaxLines - 2 lines of the vocabulary, the device may send a fragment
\* that readLoop holds in lineBuffer, and one further connectToPort may be made.
Fragment == Str("> sm b 1")

InitRerun ==
    /\ \E log \in Transcripts(MaxLines - 2) : ConnectedWith(log)
    /\ run = [r \in Runs |-> IdleRun]
    /\ input \in {<<>>, <<Fragment>>}

NextRerun ==
    \/ connectToPort("A")
    \/ connectToPort_disconnected("A")
    \/ connectToPort_requested("A")
    \/ connectToPort_closedFirst("A")
    \/ connectToPort_opened("A")
    \/ connectToPort_settled("A")
    \/ disconnectPort_cancel("A")
    \/ disconnectPort_readableClosed("A")
    \/ disconnectPort_writerClose("A")
    \/ disconnectPort_writableClosed("A")
    \/ disconnectPort_portClose("A")
    \/ performCLIHandshake_probe("A")
    \/ performCLIHandshake_checked("A")
    \/ performCLIHandshake_signalled("A")
    \/ \E h \in Streams : readLoop_chunk(h)
    \/ \E h \in Streams : readLoop_exit(h)
    \/ analyzeScanFailure

SpecRerun == InitRerun /\ [][NextRerun]_vars

\* The lines of log that are rows of a hex dump.
Rows(log) == {i \in DOMAIN log : isHexRow(log[i])}

\* The three lines of counts and the first line of the diagnosis that the
\* contents of transcript log determine.
Outcome(log) ==
    LET selects == Cardinality(Selects(log))
        acks == Cardinality(Acknowledgements(log))
        dumps == Cardinality(Dumps(log))
        good == Cardinality(SuccessfulDumps(log))
    IN  <<Str("  * MUX Commands: ") \o Num(acks) \o <<"/">> \o Num(selects)
              \o Str(" successful"),
          Str("  * Hex Dump Commands: ") \o Num(good) \o <<"/">> \o Num(dumps)
              \o Str(" successful"),
          Str("  * Hex Data Lines Found: ") \o Num(Cardinality(Rows(log))),
          IF acks > 0 /\ good = 0 THEN NoEEPROMs[1]
          ELSE IF selects = 0 THEN NoHardware[1]
          ELSE PartialIssue[1]>>

\* C22: the counts and the classification an analysis reports are determined by
\* the contents of the transcript alone: whatever port, reader, lineBuffer and
\* isConnecting are, they are those of Outcome of the transcript, so that two
\* analyses of transcripts with identical contents report the same.
C22_AnalysisDeterministic ==
    [][Analyzed =>
        /\ SubSeq(LOG_LINES', Len(LOG_LINES) + 3, Len(LOG_LINES) + 5)
              = SubSeq(Outcome(LOG_LINES), 1, 3)
        /\ Verdict = Outcome(LOG_LINES)[4]
        /\ UNCHANGED <<port, reader, lineBuffer, isConnecting>>
      ]_vars

\* C22 witness: a transcript with one select echoed and acknowledged has been
\* analysed after the port was disconnected, during a connection attempt and
\* with a fragment of a select echo held in lineBuffer.
C22_Witness ==
    /\ port = NULL /\ reader = NULL /\ isConnecting /\ lineBuffer = Fragment
    /\ Len(LOG_LINES) > 4
    /\ LOG_LINES[3] = AnalysisHeader
    /\ LOG_LINES[5] = Str("  * MUX Commands: 1/1 successful")

\* ------------------------------------------------ claims on the scan's order
BufferRead == Str("er 0 64")

\* One of the last three lines of log contains "error" or "fail", in any case
\* of letters.
MarksFailure(log) ==
    \E i \in DOMAIN log :
        /\ i > Len(log) - 3
        /\ \E line \in {toLowerCase(log[i])} :
              includes(line, Str("error")) \/ includes(line, Str("fail"))

\* The step resolves the wait of the scan.
Waited == run["scan"].pc = "wait" /\ run'["scan"] # run["scan"]

\* The step is a call of sendCommand by the scan with command cmd.
Sent(cmd) == Called("scan") /\ calls'[Len(calls')].cmd = cmd

\* The scan has gone on to the select of the channel after the one it was at, or
\* to the hand-off to the parser when that was the last.
AtNextChannel ==
    IF run["scan"].ch < Len(scanChannels)
    THEN /\ run'["scan"].pc = "sc_w" /\ run'["scan"].site = "select"
         /\ run'["scan"].ch = run["scan"].ch + 1
         /\ calls'[Len(calls')].cmd = ExpectedSelect(run["scan"].ch + 1)
    ELSE run'["scan"].pc = "parse" /\ calls' = calls

\* C23: in a scan the buffer read is sent only as the wait after a fulfilled
\* select resolves with no "error" or "fail" in the last 3 lines of the
\* transcript, and the first hex dump only as the wait after the buffer read
\* resolves, both for the channel selected; when the write of a select is
\* rejected, or its wait resolves with "error" or "fail" in the last 3 lines,
\* nothing is sent for that channel and the scan goes on with the next channel.
C23_SelectReadDumpInOrder ==
    [][LET now == run["scan"]
           next == run'["scan"]
       IN  /\ Sent(BufferRead)
                => /\ Waited /\ now.site = "select" /\ now.ok
                   /\ ~MarksFailure(LOG_LINES)
                   /\ next.ch = now.ch /\ next.site = "er"
                   /\ calls[Len(calls)].cmd = ExpectedSelect(now.ch)
           /\ (Sent(HexDump) /\ next.site = "hd1")
                => /\ Waited /\ now.site = "er" /\ next.ch = now.ch
                   /\ calls[Len(calls)].cmd = BufferRead
           /\ (Waited /\ now.site = "select")
                => IF MarksFailure(LOG_LINES) THEN AtNextChannel ELSE Sent(BufferRead)
           /\ (Waited /\ now.site = "er") => Sent(HexDump)
           /\ (Rejected("scan") /\ now.site = "select") => AtNextChannel
      ]_vars

\* C23 witness: a scan has reached the hand-off to the parser having sent, in
\* this order, a select, a buffer read and a hex dump for one channel, having
\* abandoned another channel for a failed selection, and having gone from a
\* select whose write was rejected straight to the next select.
C23_Witness ==
    /\ run["scan"].pc = "parse"
    /\ \E i \in 1..(Len(calls) - 2) :
          /\ IsScanSelect(calls[i])
          /\ calls[i + 1].cmd = BufferRead /\ calls[i + 2].cmd = HexDump
    /\ \E i \in 1..(Len(LOG_LINES) - 2) :
          /\ Skipped(LOG_LINES[i])
          /\ LOG_LINES[i + 2] = Str("> ") \o ExpectedSelect(3)
    /\ \E i \in 1..(Len(LOG_LINES) - 3) :
          /\ LOG_LINES[i] = Str("> ") \o ExpectedSelect(3)
          /\ Skipped(LOG_LINES[i + 1])
          /\ LOG_LINES[i + 3] = WriteErrorLine

\* The step sends the select of a channel other than the first of a scan.
SelectsLaterChannel ==
    /\ Called("scan")
    /\ run'["scan"].site = "select" /\ run'["scan"].ch > 1

\* C24: between the selects of two consecutive channels of a scan the 750 ms
\* settle delay elapses: the select of every channel but the first is sent as
\* that timer fires, also when the channel before it was abandoned.
C24_SettleBetweenChannels ==
    [][SelectsLaterChannel
          => run["scan"].pc = "timer" /\ run["scan"].site = "settle"]_vars

\* ------------------------------------------------ claims on the teardown
\* The place of a call in the teardown, by the name dpTrace gives it; the two
\* outcomes come last.
DpRank(name) ==
    CASE name = "cancel" -> 1 [] name = "rclosed" -> 2 [] name = "wclose" -> 3
      [] name = "wclosed" -> 4 [] name = "pclose" -> 5 [] OTHER -> 6

\* The call an invocation suspended inside disconnectPort is awaiting.
DpAwaiting(loc) ==
    CASE loc = "dp_cancel" -> 1 [] loc = "dp_rclosed" -> 2 [] loc = "dp_wclose" -> 3
      [] loc = "dp_wclosed" -> 4 [] loc = "dp_pclose" -> 5 [] OTHER -> 0

\* What teardown step k works on, in the state a step leads to.
DpObject(k) ==
    CASE k = 1 -> reader' [] k = 2 -> readableStreamClosed'
      [] k = 3 -> writer' [] OTHER -> writableStreamClosed'

Reply == <<"o", "k", LF>>
Prompt == <<">", LF>>

InitWait ==
    /\ ConnectedPort
    /\ \E only \in Runs : run = [r \in Runs |-> IF r = only THEN IdleRun ELSE NotStarted]
    /\ input \in {<<>>, <<Reply, Prompt>>}

\* The commands a run sends up to the hex dump of its first channel, and for
\* the diagnostic run the select that follows that dump's wait.
FirstCommands(r) == IF r = "scan" THEN Len(initCommands) + MaxCmds ELSE MaxCmds + 1

WithinFirst(r, A) == A /\ Len(calls') <= FirstCommands(r)

NextWait ==
    \/ readBoardConfiguration
    \/ diagnoseBoardEEPROMs
    \/ \E r \in Runs : WithinFirst(r, sendCommand_written(r))
    \/ \E r \in Runs : Tick(r)
    \/ WithinFirst("diag", checkForStability("diag"))
    \/ WithinFirst("scan", waitForPrompt_tick("scan"))
    \/ readBoardConfiguration_timer
    \/ \E h \in Streams : readLoop_chunk(h)

SpecWait == InitWait /\ [][NextWait]_vars

\* ------------------------------------------------ claims on the waits in time
\* The step is a poll of the wait run r is in: not the mere passing of time.
Polled(r) ==
    /\ run[r].pc = "wait" /\ run'[r] # run[r]
    /\ run'[r] # [run[r] EXCEPT !.t = @ + 1]

\* The step resolves the wait run r is in.
Resolved(r) == run[r].pc = "wait" /\ run'[r].pc # "wait"

\* The transcript lengths a wait has observed, the one of the poll now made
\* included.
Observed(r) ==
    Append(IF run[r].seen = <<>> THEN <<run[r].last>> ELSE run[r].seen, Len(LOG_LINES))

\* The last four polls each found the length the observation before had found.
Quiet(lengths) ==
    /\ Len(lengths) >= 5
    /\ \A i \in (Len(lengths) - 3)..Len(lengths) : lengths[i] = lengths[i - 1]

\* C26: waitForCompleteResponse resolves at a poll exactly when the transcript
\* length has equalled the previously observed one on the last 4 polls or the
\* timeout has elapsed; a poll is not made before it is due (100 ms after the
\* start, 50 ms after a poll); and a poll that finds another length and does
\* not resolve sets the count of quiet polls to 0.
C26_QuietOrTimeout ==
    [][LET now == run["diag"]
           lengths == Observed("diag")
       IN  /\ Polled("diag")
                => /\ now.t >= (IF now.seen = <<>> THEN 2 ELSE 1)
                   /\ now.t >= now.due
                   /\ Resolved("diag")
                        <=> (Quiet(lengths) \/ now.t > timeoutTicks("diag", now.site))
                   /\ (~Resolved("diag") /\ lengths[Len(lengths)] # lengths[Len(lengths) - 1])
                        => run'["diag"].stable = 0
           /\ Resolved("diag") => Polled("diag")
      ]_vars

\* C26 witness: a wait of the diagnostic run has seen the transcript grow at a
\* poll and then stay as it was on three polls, the timeout not having elapsed:
\* the poll now due finds it quiet for the fourth time.
C26_Witness ==
    LET now == run["diag"]
    IN  /\ now.pc = "wait" /\ now.t >= now.due
        /\ now.t <= timeoutTicks("diag", now.site)
        /\ Len(now.seen) >= 5
        /\ now.seen[Len(now.seen) - 3] # now.seen[Len(now.seen) - 4]
        /\ now.stable = 3 /\ Len(LOG_LINES) = now.last

\* A line that counts as a prompt: its text without the blanks around it ends
\* in ">", or it contains "$".
PromptLine(line) ==
    \/ Stripped(line) # <<>> /\ Stripped(line)[Len(Stripped(line))] = ">"
    \/ "$" \in Chars(line)

\* The places of log, among its last n, that hold a prompt.
PromptsInLast(log, n) ==
    {i \in DOMAIN log : i > Len(log) - n /\ PromptLine(log[i])}

\* C27: waitForPrompt resolves at a poll exactly when one of the last 10 lines
\* of the transcript is a prompt or the timeout has elapsed, a poll being made
\* no sooner than 100 ms after the start or after the poll before it; so a
\* prompt further back than the last 10 lines does not complete the wait.
C27_PromptOrTimeout ==
    [][LET now == run["scan"]
       IN  /\ Polled("scan")
                => /\ now.t >= 1 /\ now.t >= now.due
                   /\ Resolved("scan")
                        <=> \/ PromptsInLast(LOG_LINES, 10) # {}
                            \/ now.t > timeoutTicks("scan", now.site)
           /\ Resolved("scan") => Polled("scan")
      ]_vars

\* C27 witness: the wait after the first select of a scan has been polled and
\* has not resolved, although the transcript holds a prompt, 11 or more lines
\* back; the poll now due will not resolve it either.
C27_Witness ==
    LET now == run["scan"]
    IN  /\ now.pc = "wait" /\ now.site = "select"
        /\ now.due >= 2 /\ now.t >= now.due
        /\ now.t <= timeoutTicks("scan", now.site)
        /\ PromptsInLast(LOG_LINES, 10) = {}
        /\ PromptsInLast(LOG_LINES, Len(LOG_LINES)) # {}

\* ------------------------------------------- claims on the transcript's owner
\* Run r has emptied the transcript at its start and has not yet handed it to
\* the parser.
Collecting(r) == run[r].pc \notin {"idle", "parse"}

IsPrefix(s, t) == Len(s) <= Len(t) /\ SubSeq(t, 1, Len(s)) = s

\* C28: while a scan or a diagnostic run is between the reset of the transcript
\* at its start and the hand-off to the parser, every step leaves what the
\* transcript held in place and at most appends to it.
C28_TranscriptOnlyAppended ==
    [][(\E r \in Runs : Collecting(r)) => IsPrefix(LOG_LINES, LOG_LINES')]_vars

\* ---------------------------------------------------------- SpecShared
\* A whole scan on the connected port, the device silent, beside which the
\* diagnostic run may be started while the scan is within its first MaxCmds
\* commands; the write of that run's first command stays pending.
InitShared == Connected /\ input = <<>>

NextShared ==
    \/ readBoardConfiguration
    \/ sendCommand_written("scan")
    \/ waitForPrompt_poll("scan")
    \/ readBoardConfiguration_timer
    \/ parseLogWithBackend_done("scan")
    \/ Len(calls) <= MaxCmds /\ diagnoseBoardEEPROMs

SpecShared == InitShared /\ [][NextShared]_vars

\* The line a scan logs for its n-th channel.
ChannelTitle(n) ==
    <<LF>> \o Str("--- MUX ") \o <<IF n <= 16 THEN "A" ELSE "B">>
           \o Str(", Channel ") \o Num((n - 1) % 16) \o Str(" ---")

\* The step is the scan's call of parseLogWithBackend.
HandsOver == run["scan"].pc \notin {"idle", "parse"} /\ run'["scan"].pc = "parse"

\* C29: a scan calls parseLogWithBackend once, when the last channel (b, 15)
\* has been processed, and the transcript it then holds is the one accumulated
\* since the scan started: it begins with the scan's first line and holds the
\* line of each of the 32 channels.
C29_ParserGetsScanTranscript ==
    [][/\ HandsOver
            => /\ run["scan"].ch = Len(scanChannels)
               /\ LOG_LINES'[1] = Str("Starting board configuration read...")
               /\ \A n \in 1..Len(scanChannels) : Count(LOG_LINES', ChannelTitle(n)) = 1
               /\ LOG_LINES'[Len(LOG_LINES')]
                    = <<LF>> \o Str("=== Sending log data to backend for parsing ===")
       /\ (run["scan"].pc = "parse" /\ run'["scan"] # run["scan"])
            => run'["scan"].pc = "idle" /\ run'["scan"].runs = run["scan"].runs + 1
      ]_vars

\* ------------------------------------------- claims on the diagnostic run
\* The selects of a diagnostic run, in the order the claim gives them.
DiagSelects ==
    <<Str("sm a 0"), Str("sm a 1"), Str("sm a 2"), Str("sm a 3"),
      Str("sm b 0"), Str("sm b 1"), Str("sm b 2"), Str("sm b 3")>>

BufferRead128 == Str("er 0 128")
HexDump128 == Str("hd 0 128")

IsDiagCall(call) == call.run = "diag"

\* The commands the diagnostic run has passed to sendCommand, in order.
DiagCmds == [i \in DOMAIN SelectSeq(calls, IsDiagCall) |-> SelectSeq(calls, IsDiagCall)[i].cmd]

IsSelect(cmd) == SubSeq(cmd, 1, 3) = Str("sm ")

\* How many of the first i commands of cmds are selects.
SelectsUpTo(cmds, i) == Cardinality({j \in 1..i : IsSelect(cmds[j])})

\* The step is the return of the sendCommand the diagnostic run made at site.
DiagSent(site) ==
    /\ run["diag"].pc \in {"sc_w", "sc_ret"} /\ run["diag"].site = site
    /\ run'["diag"] # run["diag"]

\* The step resolves the wait the diagnostic run made at site.
DiagWaited(site) ==
    /\ run["diag"].pc = "wait" /\ run["diag"].site = site
    /\ run'["diag"].pc # "wait"

\* The diagnostic run starts a wait for the response, at the site it is at.
DiagWaits ==
    /\ run'["diag"].pc = "wait" /\ run'["diag"].site = run["diag"].site
    /\ calls' = calls

\* The diagnostic run calls sendCommand with cmd.
DiagSends(cmd) ==
    /\ Len(calls') = Len(calls) + 1
    /\ calls'[Len(calls')].run = "diag" /\ calls'[Len(calls')].cmd = cmd

\* The diagnostic run goes on to the channel after the one it is at, or to the
\* end of the run when that was the eighth.
DiagNextChannel ==
    \E cmds \in {DiagCmds} :
        IF SelectsUpTo(cmds, Len(cmds)) = Len(DiagSelects) * (run["diag"].runs + 1)
        THEN run'["diag"].pc = "parse" /\ calls' = calls
        ELSE DiagSends(DiagSelects[(SelectsUpTo(cmds, Len(cmds)) % Len(DiagSelects)) + 1])

\* C30: what a diagnostic run sends is, in order, the selects of a0..a3 then
\* b0..b3, each once in every run, with one buffer read 'er 0 128' right after a select and
\* one hex dump 'hd 0 128' right after a buffer read and nowhere else.  A
\* select that was written is followed by a stability wait, then the buffer
\* read, a stability wait, the hex dump, a stability wait, and then the next
\* channel: the dump is not sent again.  A select that was not written is
\* followed by the next channel at once.
C30_DiagnosticSequence ==
    [][\E cmds \in {DiagCmds} :
        /\ \A i \in DOMAIN cmds :
              \/ /\ IsSelect(cmds[i])
                 /\ SelectsUpTo(cmds, i) <= Len(DiagSelects) * (run["diag"].runs + 1)
                 /\ cmds[i] = DiagSelects[((SelectsUpTo(cmds, i) - 1) % Len(DiagSelects)) + 1]
              \/ cmds[i] = BufferRead128 /\ i > 1 /\ IsSelect(cmds[i - 1])
              \/ cmds[i] = HexDump128 /\ i > 1 /\ cmds[i - 1] = BufferRead128
        /\ DiagSent("select") =>
              IF returned'["diag"] = "true" THEN DiagWaits ELSE DiagNextChannel
        /\ DiagWaited("select") => DiagSends(BufferRead128)
        /\ DiagSent("er") => DiagWaits
        /\ DiagWaited("er") => DiagSends(HexDump128)
        /\ DiagSent("hd") => DiagWaits
        /\ DiagWaited("hd") => DiagNextChannel
      ]_vars

\* C30 witness: a first diagnostic run has reached its end having sent all 24
\* commands: the eight selects, each with its buffer read and its hex dump.
C30_Witness ==
    /\ run["diag"].pc = "parse" /\ run["diag"].runs = 0
    /\ \E cmds \in {DiagCmds} :
          /\ Len(cmds) = 3 * Len(DiagSelects)
          /\ \A n \in 1..Len(DiagSelects) :
                /\ cmds[3 * n - 2] = DiagSelects[n]
                /\ cmds[3 * n - 1] = BufferRead128
                /\ cmds[3 * n] = HexDump128

\* ------------------------------------------- claims on the dump counts
\* The lines of log that echo a hex-dump command: sendCommand logs "> " and the
\* command (376), and the dump commands are 'hd 0 16' (596, 603), 'hd 0 128'
\* (1048) and the forms 'hd 16', 'hd 64', 'hd 128'.
DumpEchoes(log) == {i \in DOMAIN log : at(log[i], 1, Str("> hd "))}

\* The dump echoes of log that a hex row follows before the next dump echo.
DumpEchoesWithData(log) ==
    {i \in DumpEchoes(log) :
        \E j \in Rows(log) : j > i /\ \A k \in (i + 1)..j : k \notin DumpEchoes(log)}

\* C31: the analysis reports as dump attempts the number of hex-dump echoes of
\* the transcript, 'hd 0 16' and 'hd 0 128' included, as dump successes the
\* number of them a hex row follows before the next one, and as hex-row total
\* the number of hex rows of the transcript.
C31_DumpCountsMatchEchoes ==
    [][Analyzed =>
        /\ LOG_LINES'[Len(LOG_LINES) + 4]
              = Str("  * Hex Dump Commands: ")
                  \o Num(Cardinality(DumpEchoesWithData(LOG_LINES))) \o <<"/">>
                  \o Num(Cardinality(DumpEchoes(LOG_LINES))) \o Str(" successful")
        /\ LOG_LINES'[Len(LOG_LINES) + 5]
              = Str("  * Hex Data Lines Found: ") \o Num(Cardinality(Rows(LOG_LINES)))
      ]_vars

\* ------------------------------------------- claims on the retry decision
\* The step decides on the retry of the scan's first dump of a channel.
DecidesRetry == run["scan"].pc = "wait" /\ run["scan"].site = "hd1" /\ run'["scan"] # run["scan"]

\* The step retries: the scan goes on to the second dump of the channel.
Retries == run'["scan"].site = "retry"

\* The scan is at the first dump of a channel: from its call to the decision.
AtFirstDump == run["scan"].site = "hd1" /\ run["scan"].pc \in {"sc_w", "sc_ret", "wait"}

\* C32 as stated: with hex rows already in the transcript when the first dump
\* of a channel was sent, that dump is not retried.
C32_EarlierRowsPreventRetry ==
    [][(DecidesRetry /\ run["scan"].before > 0) => ~Retries]_vars

\* C32 amended: the decision compares the number of hex rows of the transcript
\* when the dump was sent with the number when its wait is over, so the dump is
\* retried exactly when no hex row has been added in between, whatever hex rows
\* earlier channels have left in the transcript.
C32_RetryIffNoNewRow ==
    [][/\ (Called("scan") /\ run'["scan"].site = "hd1")
            => run'["scan"].before = hexLineCount(LOG_LINES)
       /\ (AtFirstDump /\ ~DecidesRetry)
            => /\ run'["scan"].before = run["scan"].before
               /\ hexLineCount(LOG_LINES') >= hexLineCount(LOG_LINES)
       /\ DecidesRetry
            => (Retries <=> hexLineCount(LOG_LINES) - run["scan"].before = 0)
      ]_vars

\* C32 witness: the scan is about to retry the dump of channel a1, which gained
\* no hex row, while the transcript holds the three hex rows received during
\* channel a0.
C32_Witness ==
    /\ run["scan"].pc = "timer" /\ run["scan"].site = "retry"
    /\ run["scan"].ch = 2
    /\ run["scan"].before = 3 /\ hexLineCount(LOG_LINES) = 3
    /\ \E i, j \in DOMAIN LOG_LINES :
          /\ i < j /\ isHexRow(LOG_LINES[i])
          /\ LOG_LINES[j] = <<LF>> \o Str("--- MUX A, Channel 1 ---")

\* --------------------------------------- claims on abandoning a channel
\* The step abandons the channel the scan is at for a failed selection.
Abandons ==
    /\ run["scan"].pc = "wait" /\ run["scan"].site = "select"
    /\ Len(LOG_LINES') > Len(LOG_LINES)
    /\ Skipped(LOG_LINES'[Len(LOG_LINES) + 1])

\* The line with which the scan opens the channel it is at (568).
OpeningOf(n) ==
    <<LF>> \o Str("--- MUX ") \o <<IF n <= 16 THEN "A" ELSE "B">>
           \o Str(", Channel ") \o Num((n - 1) % 16) \o Str(" ---")

\* The lines of log that the device sent after the select of channel n was
\* sent: those after the opening of the channel, the echo of the select apart.
DeviceLinesSince(log, n) ==
    {i \in DOMAIN log :
        /\ \E j \in DOMAIN log : j < i /\ log[j] = OpeningOf(n)
        /\ ~at(log[i], 1, Str("> sm "))}

\* C33: a channel is abandoned as 'MUX selection failed' only if a line the
\* device sent after the channel's select contains 'error' or 'fail'; a status
\* line of the scan itself does not make a later channel abandoned.
C33_AbandonedOnDeviceComplaint ==
    [][Abandons =>
          \E i \in DeviceLinesSince(LOG_LINES, run["scan"].ch) :
              \E line \in {toLowerCase(LOG_LINES[i])} :
                  includes(line, Str("error")) \/ includes(line, Str("fail"))
      ]_vars

\* ------------------------------------------ claims on the prompt of a wait
\* The place of the last line of log that sendCommand logged for command cmd:
\* its echo, or the error of its write.  The wait that follows the command
\* starts with the transcript ending there.
CommandLine(log, cmd) ==
    LET own == {i \in DOMAIN log :
                   log[i] \in {Str("> ") \o cmd, WriteErrorLine, NotConnectedLine}}
    IN  IF own = {} THEN 0 ELSE CHOOSE i \in own : \A j \in own : j <= i

\* C34: a waitForPrompt that resolves before its timeout has a prompt among the
\* lines appended to the transcript after the wait started; a prompt that an
\* earlier command left in the transcript does not complete it.
C34_PromptSinceWaitStarted ==
    [][(Resolved("scan") /\ run["scan"].t <= timeoutTicks("scan", run["scan"].site))
          => \E i \in DOMAIN LOG_LINES :
                /\ i > CommandLine(LOG_LINES, run["scan"].cmd)
                /\ PromptLine(LOG_LINES[i])
      ]_vars

\* ------------------------------------------- claims on the echo of a command
\* The step appends lines received from the device: the transcript grows and
\* no run has moved.
DeviceLinesLogged == Len(LOG_LINES') > Len(LOG_LINES) /\ run' = run

\* Run r has passed a command to writer.write and has not logged its echo yet:
\* the write is pending or the 100 ms that follow it are running (370-376).
EchoPending(r) == run[r].pc = "sc_w"

\* C35: the echo of a command is in the transcript before any line the device
\* sends after the command was written: no device line is appended while the
\* echo of a written command is still to come.
C35_EchoBeforeResponse ==
    [][DeviceLinesLogged => \A r \in Runs : ~EchoPending(r)]_vars

\* ----------------------------------------------------------- SpecReport
\* Either a whole scan or a whole diagnostic run on the connected port, the
\* other one not being started, at whose end the backend reports a failure and
\* the transcript of the run is analysed.
InitReport == InitLive

NextReport ==
    \/ readBoardConfiguration
    \/ diagnoseBoardEEPROMs
    \/ \E r \in Runs : sendCommand_written(r)
    \/ waitForPrompt_poll("scan")
    \/ waitForCompleteResponse_poll("diag")
    \/ readBoardConfiguration_timer
    \/ \E r \in Runs : parseLogWithBackend_failed(r)
    \/ \E h \in Streams : Len(calls) <= MaxBusy /\ readLoop_chunk(h)

SpecReport == InitReport /\ [][NextReport]_vars

\* The step is the analysis of the transcript of a run that has ended.
RunAnalyzed ==
    /\ \E r \in Runs : run[r].pc = "parse" /\ run'[r].pc = "idle"
    /\ Len(LOG_LINES') > Len(LOG_LINES) + 5
    /\ LOG_LINES'[Len(LOG_LINES) + 2] = AnalysisHeader

\* The most a count of the analysis of a run's transcript can be.
MostCounted == 3 * Len(scanChannels)

\* line reports, after label, a number of successes that is at most the number
\* of attempts.
AtMostAttempts(line, label) ==
    \E good, tried \in 0..MostCounted :
        /\ good <= tried
        /\ line = label \o Num(good) \o <<"/">> \o Num(tried) \o Str(" successful")

\* C36: on the transcript of a full scan or of a diagnostic run the analysis
\* reports no more select successes than select attempts and no more dump
\* successes than dump attempts.
C36_SuccessesWithinAttempts ==
    [][RunAnalyzed =>
          /\ AtMostAttempts(LOG_LINES'[Len(LOG_LINES) + 4], Str("  * MUX Commands: "))
          /\ AtMostAttempts(LOG_LINES'[Len(LOG_LINES) + 5], Str("  * Hex Dump Commands: "))
      ]_vars

\* ------------------------------------------- claims on the stream handles
\* C37: when no connect or disconnect is in progress and port is null, reader
\* and writer are null too: no handle of an earlier transport is left.
C37_NoHandleWithoutPort ==
    ((\A c \in Callers : ~InFlight(c)) /\ port = NULL)
        => (reader = NULL /\ writer = NULL)

\* ------------------------------------------------------------ SpecShake
\* performCLIHandshake from its first write on, its own lines and the device's
\* being followed in the transcript: the transcript held at most one line
\* before, and the device is silent or sends a reply, a prompt or both.
InitShake ==
    /\ \E log \in Transcripts(1) : ConnectedAt(logLine(log, WakeUpLine), "hs_w1")
    /\ run = [r \in Runs |-> IdleRun]
    /\ input \in {<<>>, <<Reply>>, <<Prompt>>, <<Reply, Prompt>>}

NextShake ==
    \/ performCLIHandshake_probed("A")
    \/ performCLIHandshake_examined("A")
    \/ \E h \in Streams : readLoop_chunk(h)

SpecShake == InitShake /\ [][NextShake]_vars

\* The step is the examination that ends a handshake's probes.
Examined == \E c \in Callers : pc[c] = "hs_w3" /\ Len(LOG_LINES') > Len(LOG_LINES)

\* The examination reports that the device is responding.
ReportsResponding ==
    at(LOG_LINES'[Len(LOG_LINES) + 1], 1, Str("[ok] Device is responding!"))

\* The examination takes the other branch: the warning, then the toggle.
ReportsSilence ==
    /\ SubSeq(LOG_LINES', Len(LOG_LINES) + 1, Len(LOG_LINES')) = NotRespondingLines
    /\ \E c \in Callers : pc'[c] = "hs_s1"

\* C38: the handshake reports that the device is responding only if a line
\* was received from the device since the handshake began; when the device
\* sent nothing, the warning is logged and the signals are toggled.
C38_RespondingOnlyOnDeviceLine ==
    [][Examined =>
          /\ ReportsResponding => received # <<>>
          /\ received = <<>> => ReportsSilence
      ]_vars

\* ------------------------------------------------------------ SpecTwice
\* analyzeScanFailure run on a transcript of at most MaxLines lines of the
\* vocabulary and then again on what it has left: the analyze button stays in
\* the page (776-778) and may be clicked any number of times.
InitTwice == InitAnalyze

NextTwice == analyzeScanFailureWithin(MaxRuns + 1)

SpecTwice == InitTwice /\ [][NextTwice]_vars

\* The place of the heading of the latest analysis in log, 0 when there is none.
LatestAnalysis(log) ==
    LET heads == {i \in DOMAIN log : log[i] = AnalysisHeader}
    IN  IF heads = {} THEN 0 ELSE CHOOSE i \in heads : \A j \in heads : j <= i

\* The three lines of counts and the first line of the diagnosis of the
\* analysis whose heading is at place h of log.
Reported(log, h) == <<log[h + 2], log[h + 3], log[h + 4], log[h + 6]>>

\* C39: an analysis of a transcript that ends with an analysis reports the
\* counts and the diagnosis that one reported: the lines an analysis appends
\* are counted as nothing.
C39_SecondAnalysisAgrees ==
    [][(Analyzed /\ LatestAnalysis(LOG_LINES) > 0)
          => Reported(LOG_LINES', Len(LOG_LINES) + 1)
               = Reported(LOG_LINES, LatestAnalysis(LOG_LINES))
      ]_vars

\* C39 witness: a transcript with an acknowledged selection, a dump and a hex
\* row has been analysed twice, and the second analysis reports one selection,
\* one successful dump and one hex row as the first did.
C39_Witness ==
    /\ Count(LOG_LINES, AnalysisHeader) = 2
    /\ SubSeq(LOG_LINES, 1, 3) = <<Str("Selected MUX B, Channel 12"), Str("> hd 16"),
                                   Str("00: 50 52 4f 4d 4f 54 45 52 |")>>
    /\ LOG_LINES[4] = AnalysisHeader
    /\ \E h \in {LatestAnalysis(LOG_LINES)} :
          /\ h > 4
          /\ LOG_LINES[h + 2] = Str("  * MUX Commands: 1/0 successful")
          /\ LOG_LINES[h + 3] = Str("  * Hex Dump Commands: 1/1 successful")
          /\ LOG_LINES[h + 4] = Str("  * Hex Data Lines Found: 1")

====
